---- MODULE Spec2Model ----
(***************************************************************************)
(* FileSweep: the file-stat index (statdb.py), the scanner, the decision   *)
(* engine and the executor (filesweep/filesweep.py).                       *)
(*                                                                         *)
(* Ten specifications share the variables below:                          *)
(*   Spec        the StatDB operations called on a loaded database         *)
(*   SpecScan    update_db: the worker threads and the stale sweep         *)
(*   SpecDecide  check_db over the hash groups of a database               *)
(*   SpecAct     act_decisions draining a decision queue                   *)
(*   SpecConc    two callers of the StatDB, each on a path of its own      *)
(*   SpecSnap    load and save of the snapshot at cache_path               *)
(*   SpecRun     run(): main, its interruption, and the final save         *)
(*   SpecPat     patterns: repr, _parse_pattern_fromstr and match          *)
(*   SpecTree    load_config, iterate_files and the config of a file       *)
(*   SpecLock    the locks taken by update_db, check_db and act_decisions  *)
(*               (SpecLockFair: the same under a fair scheduler)           *)
(*                                                                         *)
(* The databases of SpecScan, SpecDecide and SpecAct are those a client    *)
(* of StatDB obtains from a loaded database with add_item and update_item. *)
(* Files are those of a Windows build (st_file_attributes, st_birthtime).  *)
(***************************************************************************)
EXTENDS Integers, Sequences, FiniteSets, TLC

VARIABLES
    db,         \* the StatDB: its five tables, _index and _dirty
    last,       \* the last StatDB call made by a client and its outcome
    config,     \* the Config passed to update_db, check_db and act_decisions
    scan,       \* update_db: iterator, visited set, worker threads
    deq,        \* check_db / act_decisions: the decision queue and its state
    exe,        \* act_decisions: the disk, the tally, the loop position
    clients,    \* concurrent callers of the StatDB: the calls each has left
    cache,      \* the snapshot file at cache_path
    run,        \* run(): its position in main and what ended it
    pat,        \* a pattern, its text, the parse of the text, a file to match
    tree,       \* configured directories over a directory tree: the loaded
                \* configs, the files enumerated, the config chosen for a file
    locks       \* the three locks, their holders, and each thread's position

vars == <<db, last, config, scan, deq, exe, clients, cache, run, pat, tree, locks>>

\* ------------------------------------------------------------------ bounds

\* _next_index is called at most MaxIndex times in one behaviour of Spec.
MaxIndex == 3

\* ------------------------------------------------------------ python dicts

\* d[k] = v
Put(d, k, v) == [x \in (DOMAIN d) \cup {k} |-> IF x = k THEN v ELSE d[x]]

\* d.pop(k) / del d[k], for k in d
Del(d, k) == [x \in (DOMAIN d) \ {k} |-> d[x]]

EmptyDict == [x \in {} |-> 0]

\* list.remove(v): drops the first occurrence of v
ListRemove(s, v) ==
    LET i == CHOOSE i \in 1..Len(s) : s[i] = v /\ \A j \in 1..(i-1) : s[j] # v
    IN  SubSeq(s, 1, i-1) \o SubSeq(s, i+1, Len(s))

SeqElems(s) == {s[i] : i \in 1..Len(s)}

\* Bag.add
BagAdd(bag, key, value) ==
    IF key \in DOMAIN bag THEN [bag EXCEPT ![key] = Append(@, value)]
    ELSE Put(bag, key, <<value>>)

\* Bag.remove
BagRemove(bag, key, value) ==
    IF key \notin DOMAIN bag THEN bag
    ELSE IF value \notin SeqElems(bag[key]) THEN bag      \* ValueError: pass
    ELSE LET rest == ListRemove(bag[key], value)
         IN  IF rest = <<>> THEN Del(bag, key) ELSE [bag EXCEPT ![key] = rest]

\* ------------------------------------------------------------------- data

\* File paths, as the sequence of their components.
PX == <<"a", "x">>
PY == <<"a", "y">>
PZ == <<"b", "z">>
PW == <<"a", "w">>

Hashes == {"h1", "h2"}
Prefixes == {"p1", "p2"}
Inodes == {1, 2}

FileInfo(path, size, modified, inode, device, file_hash, first_16b) ==
    [path |-> path, size |-> size, modified |-> modified, accessed |-> 0,
     created |-> 0, inode |-> inode, device |-> device,
     file_hash |-> file_hash, first_16b |-> first_16b]

\* The records the clients of Spec pass to add_item and update_item: two
\* paths; for one path records that differ in hash, prefix or inode; for
\* the other a record with the (device, inode) of the first.
ApiInfos ==
    {FileInfo(PX, 1, 1, 1, 1, "h1", "p1"),
     FileInfo(PX, 1, 1, 1, 1, "h2", "p1"),
     FileInfo(PX, 1, 1, 2, 1, "h1", "p2"),
     FileInfo(PY, 1, 1, 1, 1, "h1", "p1"),
     FileInfo(PY, 1, 1, 2, 1, "h2", "p2")}

ApiPaths == {i.path : i \in ApiInfos}
ApiDvins == {<<i.device, i.inode>> : i \in ApiInfos}

\* ----------------------------------------------------------------- StatDB

\* StatDB.load with no cache file to read: empty tables, _index 0, clean.
LoadedDb ==
    [file_info |-> EmptyDict, path_index |-> EmptyDict, dvin_index |-> EmptyDict,
     hash_index |-> EmptyDict, f16b_index |-> EmptyDict, index |-> 0, dirty |-> FALSE]

NoExc == "none"

Ret(d, exc, idx) == [db |-> d, exc |-> exc, idx |-> idx]

\* Bag defines __getitem__ and __delitem__ but no __setitem__: the item
\* assignment bag[key] = value looks __setitem__ up in the slot __delitem__
\* fills and raises AttributeError.
BagSetItemExc == "AttributeError"

\* StatDB._add_item: takes the next index, stores the record in file_info and
\* path_index, then assigns hash_index[file_hash] = idx, which raises; the
\* statements after it (f16b_index, dvin_index, the two Bag.add) never run.
_add_item(d, finfo) ==
    LET idx == d.index + 1
        d1  == [d EXCEPT !.index = idx,
                         !.file_info = Put(@, idx, finfo),
                         !.path_index = Put(@, finfo.path, idx)]
    IN  Ret(d1, BagSetItemExc, 0)

\* An add_item that accepts a record only into an empty database.
AddIfEmpty(d, finfo) ==
    IF DOMAIN d.file_info # {}
    THEN Ret(d, "ItemExistsError", 0)
    ELSE _add_item([d EXCEPT !.dirty = TRUE], finfo)

\* StatDB.add_item
add_item(d, finfo) ==
    IF finfo.path \in DOMAIN d.path_index
    THEN Ret(d, "ItemExistsError", 0)
    ELSE _add_item([d EXCEPT !.dirty = TRUE], finfo)

\* The tail of StatDB.pop_item, once index and finfo are known.
PopFound(d, index, finfo) ==
    LET d1 == [d EXCEPT !.dirty = TRUE, !.file_info = Del(@, index)]
    IN  IF finfo.path \notin DOMAIN d1.path_index THEN Ret(d1, "KeyError", 0)
        ELSE
        LET d2 == [d1 EXCEPT !.path_index = Del(@, finfo.path),
                             !.hash_index = BagRemove(@, finfo.file_hash, index),
                             !.f16b_index = BagRemove(@, finfo.first_16b, index)]
            dvin == <<finfo.device, finfo.inode>>
        IN  IF dvin \notin DOMAIN d2.dvin_index THEN Ret(d2, "KeyError", 0)
            ELSE Ret([d2 EXCEPT !.dvin_index = Del(@, dvin)], NoExc, index)

\* StatDB.pop_item(index=...)
pop_item_index(d, index) ==
    IF index \notin DOMAIN d.file_info THEN Ret(d, "ItemNotFoundError", 0)
    ELSE PopFound(d, index, d.file_info[index])

\* StatDB.pop_item(path=...)
pop_item_path(d, path) ==
    IF path \notin DOMAIN d.path_index THEN Ret(d, "ItemNotFoundError", 0)
    ELSE LET index == d.path_index[path]
         IN  IF index \notin DOMAIN d.file_info THEN Ret(d, "KeyError", 0)
             ELSE PopFound(d, index, d.file_info[index])

\* StatDB.pop_item(device_inode=...)
pop_item_dvin(d, dvin) ==
    IF dvin \notin DOMAIN d.dvin_index THEN Ret(d, "KeyError", 0)
    ELSE LET index == d.dvin_index[dvin]
         IN  IF index \notin DOMAIN d.file_info THEN Ret(d, "KeyError", 0)
             ELSE PopFound(d, index, d.file_info[index])

\* An update that leaves the index number under the old hash and prefix.
UpdateKeepsOld(d, idx, old_info, info) ==
    Ret([d EXCEPT !.file_info = Put(@, idx, info),
                  !.hash_index = BagAdd(@, info.file_hash, idx),
                  !.f16b_index = BagAdd(@, info.first_16b, idx)],
        NoExc, idx)

\* The tail of StatDB.update_item, once idx and old_info are known.
UpdateFound(d, idx, old_info, info) ==
    LET h1 == BagRemove(d.hash_index, old_info.file_hash, idx)
        f1 == BagRemove(d.f16b_index, old_info.first_16b, idx)
    IN  Ret([d EXCEPT !.file_info = Put(@, idx, info),
                      !.hash_index = BagAdd(h1, info.file_hash, idx),
                      !.f16b_index = BagAdd(f1, info.first_16b, idx)],
            NoExc, idx)

\* StatDB.update_item(info, index); index 0 stands for None.
update_item(d, info, index) ==
    IF info.path \notin DOMAIN d.path_index THEN Ret(d, "ItemNotFoundError", 0)
    ELSE
    LET d1 == [d EXCEPT !.dirty = TRUE]
    IN  IF index = 0
        THEN LET idx == d1.path_index[info.path]
             IN  IF idx \notin DOMAIN d1.file_info THEN Ret(d1, "KeyError", 0)
                 ELSE UpdateFound(d1, idx, d1.file_info[idx], info)
        ELSE IF index \notin DOMAIN d1.file_info THEN Ret(d1, "ItemNotFoundError", 0)
        ELSE IF d1.file_info[index].path # info.path THEN Ret(d1, "InvalidItemError", 0)
        ELSE UpdateFound(d1, index, d1.file_info[index], info)

\* StatDB.get_item / _get_item: <<index, record>> in a one-element sequence,
\* or the empty sequence for None.
get_item_index(d, index) ==
    IF index \in DOMAIN d.file_info THEN << <<index, d.file_info[index]>> >> ELSE <<>>

get_item_path(d, path) ==
    IF path \in DOMAIN d.path_index /\ d.path_index[path] \in DOMAIN d.file_info
    THEN << <<d.path_index[path], d.file_info[d.path_index[path]]>> >> ELSE <<>>

get_item_dvin(d, dvin) ==
    IF dvin \in DOMAIN d.dvin_index /\ d.dvin_index[dvin] \in DOMAIN d.file_info
    THEN << <<d.dvin_index[dvin], d.file_info[d.dvin_index[dvin]]>> >> ELSE <<>>

\* StatDB.get_items(file_hash=...) / get_items(first_16b=...): the records
\* listed under the key (an index missing from file_info raises KeyError,
\* modelled as "no result").
get_items_hash(d, h) ==
    IF h \in DOMAIN d.hash_index
    THEN {d.file_info[i] : i \in SeqElems(d.hash_index[h]) \cap DOMAIN d.file_info}
    ELSE {}

get_items_f16b(d, f) ==
    IF f \in DOMAIN d.f16b_index
    THEN {d.file_info[i] : i \in SeqElems(d.f16b_index[f]) \cap DOMAIN d.file_info}
    ELSE {}

\* ----------------------------------------------------- policies, patterns

None == <<>>
Some(v) == <<v>>

Policies == {"KEEP", "PROMPT", "HARDLINK", "TRASH", "DELETE", "DISCARD", "ERASE", "NOACTION"}

\* _POLICY_PRIORITY / policy_priority; Policy.__lt__ compares these weights.
\* Weights in which DISCARD and ERASE outweigh TRASH and DELETE.
PurgeFirst(policy) ==
    CASE policy = "KEEP"     -> 100
      [] policy = "PROMPT"   -> 75
      [] policy = "HARDLINK" -> 50
      [] policy = "DISCARD"  -> 40
      [] policy = "ERASE"    -> 30
      [] policy = "TRASH"    -> 20
      [] policy = "DELETE"   -> 10
      [] policy = "NOACTION" -> 0

policy_priority(policy) ==
    CASE policy = "KEEP"     -> 100
      [] policy = "PROMPT"   -> 75
      [] policy = "HARDLINK" -> 50
      [] policy = "TRASH"    -> 40
      [] policy = "DELETE"   -> 30
      [] policy = "DISCARD"  -> 20
      [] policy = "ERASE"    -> 10
      [] policy = "NOACTION" -> 0

\* SizePattern.match; a bound is None or Some(n)
SizeMatch(p, file) ==
    /\ (p.min_size # None => ~(file.size < p.min_size[1]))
    /\ (p.max_size # None => ~(file.size > p.max_size[1]))

SizePattern(min_size, max_size) ==
    [tag |-> "size", min_size |-> min_size, max_size |-> max_size]

\* Pattern(patterns, inverted, mergemode)
Pattern(patterns, inverted, mergemode) ==
    [tag |-> "pattern", patterns |-> patterns, inverted |-> inverted,
     mergemode |-> mergemode]

\* AnyPattern.match, by the class of the pattern; Pattern.match merges the
\* matches of its members with all() or any() and inverts the result or not.
RECURSIVE Match(_, _)
Match(p, file) ==
    CASE p.tag = "size" -> SizeMatch(p, file)
      [] p.tag = "pattern" ->
            LET all == \A i \in 1..Len(p.patterns) : Match(p.patterns[i], file)
                any == \E i \in 1..Len(p.patterns) : Match(p.patterns[i], file)
            IN  CASE ~p.inverted /\ p.mergemode = "all" -> all
                  [] ~p.inverted /\ p.mergemode = "any" -> any
                  [] p.inverted /\ p.mergemode = "all" -> ~all
                  [] p.inverted /\ p.mergemode = "any" -> ~any
                  [] OTHER -> FALSE

\* DirectoryConfig; pattern is None or Some(pattern)
DirectoryConfig(path, priority, policy, rename, pattern) ==
    [path |-> path, priority |-> priority, policy |-> policy, rename |-> rename,
     pattern |-> pattern]

\* Path.is_relative_to(dir)
IsRelativeTo(path, dir) ==
    Len(dir) <= Len(path) /\ SubSeq(path, 1, Len(dir)) = dir

\* path.parents.index(dir): 0 for the directory holding the file
ParentIndex(path, dir) == Len(path) - 1 - Len(dir)

\* list(dict.fromkeys(s)): the keys of a dict in insertion order
RECURSIVE DictKeys(_)
DictKeys(s) ==
    IF s = <<>> THEN <<>>
    ELSE DictKeys(SubSeq(s, 1, Len(s) - 1))
         \o (IF s[Len(s)] \in SeqElems(SubSeq(s, 1, Len(s) - 1)) THEN <<>>
             ELSE <<s[Len(s)]>>)

\* sorted(s, key=...) for keys in 0..maxkey, key[e] the key of e: stable
RECURSIVE SortedByKey(_, _, _)
SortedByKey(s, key, maxkey) ==
    IF maxkey < 0 THEN <<>>
    ELSE SortedByKey(s, key, maxkey - 1) \o SelectSeq(s, LAMBDA e : key[e] = maxkey)

\* max(s, key=...): the first element whose key none exceeds; greater[x, y]
\* says that the key of x exceeds the key of y
FirstMax(s, greater) ==
    LET i == CHOOSE i \in 1..Len(s) :
                /\ \A j \in 1..Len(s) : ~greater[s[j], s[i]]
                /\ \A j \in 1..(i-1) : greater[s[i], s[j]]
    IN  s[i]

MaxOf(S) == CHOOSE x \in S : \A y \in S : y <= x

\* _get_directory_config_for_path: None or Some(config)
\* The configs valid for the file, nearest ancestor first.
ValidConfigs(file_info, dir_cfgs) ==
    LET valid == DictKeys(SelectSeq(dir_cfgs, LAMBDA c :
                    /\ IsRelativeTo(file_info.path, c.path)
                    /\ (c.pattern = None \/ Match(c.pattern[1], file_info))))
        depth == [c \in SeqElems(valid) |-> ParentIndex(file_info.path, c.path)]
    IN  SortedByKey(valid, depth, Len(file_info.path))

\* Those of highest priority, with or without a pattern.
HighestPriority(sorted) ==
    SelectSeq(sorted, LAMBDA c :
        c.priority = MaxOf({e.priority : e \in SeqElems(sorted)}))

\* Those with a pattern if any has one; of these, those of highest priority.
Preferred(sorted) ==
    LET configs == IF \E c \in SeqElems(sorted) : c.pattern # None
                   THEN SelectSeq(sorted, LAMBDA c : c.pattern # None)
                   ELSE sorted
        highest == MaxOf({c.priority : c \in SeqElems(configs)})
    IN  SelectSeq(configs, LAMBDA c : c.priority = highest)

\* The config returned among several: the first of the heaviest policy.
MostRestrictive(configs) ==
    FirstMax(configs, [x, y \in SeqElems(configs) |->
                        policy_priority(x.policy) > policy_priority(y.policy)])

\* _get_directory_config_for_path: None or Some(config)
_get_directory_config_for_path(file_info, dir_cfgs) ==
    CHOOSE result \in
        {IF sorted = <<>> THEN None
         ELSE CHOOSE out \in {IF Len(configs) = 1 THEN Some(configs[1])
                              ELSE Some(MostRestrictive(configs)) :
                              configs \in {Preferred(sorted)}} : TRUE :
         sorted \in {ValidConfigs(file_info, dir_cfgs)}} : TRUE

\* ------------------------------------------------- Spec: the StatDB clients

NoInfo == FileInfo(<<>>, 0, 0, 0, 0, "", "")

NoCall == [op |-> "none", info |-> NoInfo, index |-> 0, exc |-> NoExc, idx |-> 0]

\* A call: its name, the record or key passed (a key is passed in the
\* fields of info it concerns), the index passed, and the outcome.
Call(op, info, index, r) ==
    [op |-> op, info |-> info, index |-> index, exc |-> r.exc, idx |-> r.idx]

KeyPath(path) == [NoInfo EXCEPT !.path = path]
KeyDvin(dvin) == [NoInfo EXCEPT !.device = dvin[1], !.inode = dvin[2]]

Init ==
    /\ db = LoadedDb
    /\ last = NoCall
    /\ config = "unused"
    /\ scan = "unused"
    /\ deq = "unused"
    /\ exe = "unused"
    /\ clients = "unused"
    /\ cache = "unused"
    /\ run = "unused"
    /\ pat = "unused"
    /\ tree = "unused"
    /\ locks = "unused"

AddItem ==
    \E info \in ApiInfos :
        /\ db.index < MaxIndex
        /\ LET r == add_item(db, info)
           IN  /\ db' = r.db
               /\ last' = Call("add_item", info, 0, r)
        /\ UNCHANGED <<config, scan, deq, exe, clients, cache, run, pat, tree, locks>>

UpdateItem ==
    \E info \in ApiInfos, index \in 0..MaxIndex :
        /\ LET r == update_item(db, info, index)
           IN  /\ db' = r.db
               /\ last' = Call("update_item", info, index, r)
        /\ UNCHANGED <<config, scan, deq, exe, clients, cache, run, pat, tree, locks>>

PopItemIndex ==
    \E index \in 1..MaxIndex :
        /\ LET r == pop_item_index(db, index)
           IN  /\ db' = r.db
               /\ last' = Call("pop_item_index", NoInfo, index, r)
        /\ UNCHANGED <<config, scan, deq, exe, clients, cache, run, pat, tree, locks>>

PopItemPath ==
    \E path \in ApiPaths :
        /\ LET r == pop_item_path(db, path)
           IN  /\ db' = r.db
               /\ last' = Call("pop_item_path", KeyPath(path), 0, r)
        /\ UNCHANGED <<config, scan, deq, exe, clients, cache, run, pat, tree, locks>>

PopItemDvin ==
    \E dvin \in ApiDvins :
        /\ LET r == pop_item_dvin(db, dvin)
           IN  /\ db' = r.db
               /\ last' = Call("pop_item_dvin", KeyDvin(dvin), 0, r)
        /\ UNCHANGED <<config, scan, deq, exe, clients, cache, run, pat, tree, locks>>

Next == AddItem \/ UpdateItem \/ PopItemIndex \/ PopItemPath \/ PopItemDvin

Spec == Init /\ [][Next]_vars

\* --------------------------------------------------------------- check_db

\* Decision; dircfg, target and time are None or Some(value)
Decision(dircfg, file_index, file_info, action) ==
    [dircfg |-> dircfg, file_index |-> file_index, file_info |-> file_info,
     action |-> action, target |-> None, time |-> None]

PyMax(x, y) == IF y > x THEN y ELSE x

FirstTime(time, modified) == IF time = None THEN Some(modified) ELSE time

\* _highest_decision.time = modified if it is None, else the larger of the two
RaisedTime(time, modified) ==
    IF time = None THEN Some(modified) ELSE Some(PyMax(time[1], modified))

Outcome(exc, decs) == [exc |-> exc, decs |-> decs]

OnlyKeep(policy) == policy = "KEEP"

\* The cases for KEEP, and for PROMPT and HARDLINK (not implemented,
\* treated as keep).
TreatedAsKeep(policy) == policy \in {"KEEP", "PROMPT", "HARDLINK"}

\* One pass of the loop "for idx, decision in hash_decisions.items()":
\* decs[k] is the decision a, decs[w] the winner b (_highest_decision).
DecideOne(decs, w, k) ==
    LET a == decs[k]
        b == decs[w]
        ac == a.dircfg[1]
        bc == b.dircfg[1]
        purge == ac.policy \in {"TRASH", "DELETE"}
        set(action) == Outcome(NoExc, [decs EXCEPT ![k].action = action])
        aimed(action) ==
            Outcome(NoExc, [decs EXCEPT ![k].action = action,
                                        ![k].target = Some(b.file_info.path)])
    IN  CASE policy_priority(ac.policy) > policy_priority(bc.policy) ->
                Outcome("RuntimeError", decs)
          [] OTHER ->
        CASE k = w /\ ac.policy = "DISCARD" -> set("TRASH")
          [] k = w /\ ac.policy = "ERASE" -> set("DELETE")
          [] k = w /\ ac.rename /\ purge ->
                Outcome(NoExc, [decs EXCEPT ![k].action = "RETIME",
                                            ![k].time = RaisedTime(b.time, a.file_info.modified)])
          [] k # w /\ ac.path = bc.path /\ ac.rename /\ purge ->
                IF b.action \in {"UNDEFINED", "RETIME"}
                THEN Outcome(NoExc,
                        [decs EXCEPT ![w].action = "RETIME",
                                     ![w].time = RaisedTime(b.time, a.file_info.modified),
                                     ![k].action = ac.policy,
                                     ![k].target = Some(b.file_info.path)])
                ELSE Outcome("RuntimeError", decs)
          [] OTHER ->
        CASE k = w -> set("NOACTION")
          [] TreatedAsKeep(ac.policy) -> set("KEEP")
          [] ac.policy = "TRASH" /\ policy_priority(bc.policy) >= policy_priority("TRASH") ->
                aimed("TRASH")
          [] ac.policy = "DELETE" /\ policy_priority(bc.policy) >= policy_priority("DELETE") ->
                aimed("DELETE")
          [] OTHER -> set("NOACTION")

RECURSIVE DecideLoop(_, _, _)
DecideLoop(decs, w, k) ==
    IF k > Len(decs) THEN Outcome(NoExc, decs)
    ELSE CHOOSE out \in
            {IF r.exc # NoExc THEN r ELSE DecideLoop(r.decs, w, k + 1) :
             r \in {DecideOne(decs, w, k)}} : TRUE

\* The final loop over hash_decisions: a RETIME to the file's own modified
\* time becomes NOACTION.
Finalize(decs) ==
    [k \in 1..Len(decs) |->
        IF decs[k].action = "RETIME" /\ decs[k].time = Some(decs[k].file_info.modified)
        THEN [decs[k] EXCEPT !.action = "NOACTION", !.time = None]
        ELSE decs[k]]

\* The first pass: one Decision per index of the group that get_item finds.
FirstPass(d, dirs, idxs) ==
    LET found == DictKeys(SelectSeq(idxs, LAMBDA i : get_item_index(d, i) # <<>>))
    IN  [k \in 1..Len(found) |->
            CHOOSE dec \in
                {Decision(dircfg, found[k], d.file_info[found[k]],
                          IF dircfg = None THEN "NOACTION" ELSE "UNDEFINED") :
                 dircfg \in {_get_directory_config_for_path(d.file_info[found[k]], dirs)}} :
                TRUE]

\* The position of the first decision of the lowest policy weight.
LowestFirst(decs) ==
    CHOOSE k \in 1..Len(decs) :
        /\ \A j \in 1..Len(decs) :
              policy_priority(decs[j].dircfg[1].policy) >= policy_priority(decs[k].dircfg[1].policy)
        /\ \A j \in 1..(k-1) :
              policy_priority(decs[j].dircfg[1].policy) > policy_priority(decs[k].dircfg[1].policy)

\* The position of the first decision of the highest policy weight.
FirstOfTop(decs) ==
    CHOOSE k \in 1..Len(decs) :
        /\ \A j \in 1..Len(decs) :
              policy_priority(decs[j].dircfg[1].policy) <= policy_priority(decs[k].dircfg[1].policy)
        /\ \A j \in 1..(k-1) :
              policy_priority(decs[j].dircfg[1].policy) < policy_priority(decs[k].dircfg[1].policy)

\* _highest_decision: the position of the winner in hash_decisions
Winner(decs) ==
    LET weights == {policy_priority(decs[k].dircfg[1].policy) : k \in 1..Len(decs)}
        top == SelectSeq([k \in 1..Len(decs) |-> k],
                    LAMBDA k : policy_priority(decs[k].dircfg[1].policy) = MaxOf(weights))
        better == [x, y \in 1..Len(decs) |->
            \/ decs[x].dircfg[1].priority > decs[y].dircfg[1].priority
            \/ /\ decs[x].dircfg[1].priority = decs[y].dircfg[1].priority
               /\ decs[x].file_info.modified < decs[y].file_info.modified]
    IN  FirstMax(top, better)

\* The body of check_db's loop for one hash group: the decisions it puts on
\* the queue, or the exception that ends check_db.
DecideFrom(decs) ==
    IF decs = <<>> THEN Outcome("ValueError", <<>>)
    ELSE IF \E k \in 1..Len(decs) : decs[k].dircfg = None
    THEN Outcome("AttributeError", <<>>)
    ELSE CHOOSE out \in
            {IF r.exc # NoExc THEN Outcome(r.exc, <<>>)
             ELSE Outcome(NoExc, Finalize(r.decs)) :
             r \in {DecideLoop(decs, w, 1) : w \in {Winner(decs)}}} : TRUE

DecideGroup(d, dirs, idxs) ==
    CHOOSE out \in {DecideFrom(decs) : decs \in {FirstPass(d, dirs, idxs)}} : TRUE

\* check_db over the groups of hash_index in the order keys.
RECURSIVE check_db(_, _, _, _)
check_db(d, dirs, keys, queue) ==
    IF keys = <<>> THEN Outcome(NoExc, queue)
    ELSE CHOOSE out \in
            {IF r.exc # NoExc THEN Outcome(r.exc, queue)
             ELSE check_db(d, dirs, Tail(keys), queue \o r.decs) :
             r \in {DecideGroup(d, dirs, d.hash_index[Head(keys)])}} : TRUE

\* The orders in which a dict may list the keys S.
Orders(S) ==
    {s \in [1..Cardinality(S) -> S] : \A i, j \in 1..Cardinality(S) : s[i] = s[j] => i = j}

\* ------------------------------------------- SpecDecide: main calls check_db

\* Bounds of the decision engine's inputs.
MaxModified == 2
MaxPriority == 2

\* A database filled through its own operations: add_item, then update_item.
RECURSIVE Populated(_)
Populated(infos) ==
    IF infos = <<>> THEN LoadedDb
    ELSE CHOOSE d \in
            {update_item(added, infos[Len(infos)], 0).db :
             added \in {add_item(before, infos[Len(infos)]).db :
                        before \in {Populated(SubSeq(infos, 1, Len(infos) - 1))}}} : TRUE

\* Files of one or two hash groups: PX is the one file of 2 bytes, PZ the
\* one that may have another content, PW a third file of directory a.
DecideInfos ==
    {FileInfo(PX, 2, m, 1, 1, "h1", "p1") : m \in 1..MaxModified}
    \cup {FileInfo(PY, 1, m, 2, 1, "h1", "p1") : m \in 1..MaxModified}
    \cup {FileInfo(PZ, 1, 1, 3, 1, h, "p1") : h \in Hashes}
    \cup {FileInfo(PW, 1, MaxModified, 4, 1, "h1", "p1")}

DecideFiles ==
    {s \in UNION {[1..n -> DecideInfos] : n \in 1..3} :
        \A i, j \in 1..Len(s) : s[i].path = s[j].path => i = j}

DirA(policy, rename) == DirectoryConfig(<<"a">>, 1, policy, rename, None)
DirB(policy, priority) == DirectoryConfig(<<"b">>, priority, policy, FALSE, None)
\* A second config for directory a, for files of 2 bytes and more.
DirA2 == DirectoryConfig(<<"a">>, 1, "KEEP", FALSE, Some(SizePattern(Some(2), None)))

DecideDirs ==
    {<<DirA(p, r)>> : p \in Policies, r \in BOOLEAN}
    \cup {<<DirA(p, r), DirB(q, n)>> :
            p \in Policies, r \in BOOLEAN, q \in Policies, n \in 0..MaxPriority}
    \cup {<<DirA(p, r), DirA2, DirB("DELETE", 0)>> : p \in Policies, r \in BOOLEAN}

InitDecide ==
    /\ \E infos \in DecideFiles : db = Populated(infos)
    /\ last = NoCall
    /\ \E dirs \in DecideDirs : config = [dirs |-> dirs]
    /\ scan = "unused"
    /\ deq = [pc |-> "check_db", exc |-> NoExc, queue |-> <<>>]
    /\ exe = "unused"
    /\ clients = "unused"
    /\ cache = "unused"
    /\ run = "unused"
    /\ pat = "unused"
    /\ tree = "unused"
    /\ locks = "unused"

CheckDb ==
    /\ deq.pc = "check_db"
    /\ \E keys \in Orders(DOMAIN db.hash_index) :
        \E r \in {check_db(db, config.dirs, keys, <<>>)} :
            deq' = [pc |-> "act_decisions", exc |-> r.exc, queue |-> r.decs]
    /\ UNCHANGED <<db, last, config, scan, exe, clients, cache, run, pat, tree, locks>>

NextDecide == CheckDb

SpecDecide == InitDecide /\ [][NextDecide]_vars


\* -------------------------------------------------------------- update_db

\* A file on disk: what lstat reports, what hash_file and read_16b compute
\* from its content, and how it fails: "stat" when lstat raises
\* FileNotFoundError, "read" when open raises PermissionError.
DiskFile(path, size, modified, inode, hash, f16b, err) ==
    [path |-> path, size |-> size, modified |-> modified, inode |-> inode,
     device |-> 1, hash |-> hash, f16b |-> f16b, err |-> err]

\* A value or the exception raised in its place.
Val(v) == [exc |-> NoExc, val |-> v]
Raise(exc) == [exc |-> exc, val |-> "None"]

\* read_file_info: the IncompleteFileInfo of a file, or the error of lstat
read_file_info(f) ==
    IF f.err = "stat" THEN Raise("FileNotFoundError")
    ELSE Val(FileInfo(f.path, f.size, f.modified, f.inode, f.device, "None", "None"))

\* The file of the disk at a path.
DiskAt(disk, path) == CHOOSE i \in 1..Len(disk) : disk[i].path = path

\* hash_file(path, ...) and read_16b(path)
hash_file(disk, path) ==
    IF disk[DiskAt(disk, path)].err = "read" THEN Raise("PermissionError")
    ELSE Val(disk[DiskAt(disk, path)].hash)

read_16b(disk, path) ==
    IF disk[DiskAt(disk, path)].err = "read" THEN Raise("PermissionError")
    ELSE Val(disk[DiskAt(disk, path)].f16b)

\* iterate_files: for each configured directory in turn, the files below it
\* in the order the directory lists them; a directory configured twice is
\* listed twice.
RECURSIVE iterate_files(_, _)
iterate_files(dirs, disk) ==
    IF dirs = <<>> THEN <<>>
    ELSE SelectSeq(disk, LAMBDA f : IsRelativeTo(f.path, Head(dirs).path))
         \o iterate_files(Tail(dirs), disk)

\* IncompleteFileInfo.complete
complete(inc, file_hash, first_16b) ==
    [inc EXCEPT !.file_hash = file_hash, !.first_16b = first_16b]

\* What a worker decided for a file: "add" or "update" with the item and the
\* old index, "continue" when the file is known, or the exception raised.
Todo(action, item, old_idx) ==
    [exc |-> NoExc, action |-> action, item |-> item, old_idx |-> old_idx]
Failed(exc) == [exc |-> exc, action |-> "none", item |-> NoInfo, old_idx |-> -1]

\* The "add" case after read_16b succeeded: hash the file, complete the item.
AddNew(inc, disk, f16b) ==
    IF hash_file(disk, inc.path).exc # NoExc THEN Failed(hash_file(disk, inc.path).exc)
    ELSE Todo("add", complete(inc, hash_file(disk, inc.path).val, f16b), -1)

\* The "moved or renamed" case: the record found by (device, inode) against
\* the file; small is performance.small_file_size, None or Some(n).
Moved(inc, disk, f16b, idx, known, small) ==
    IF inc.size # known.size \/ inc.modified # known.modified
    THEN AddNew(inc, disk, f16b)
    ELSE IF small = None \/ inc.size <= small[1]
    THEN IF hash_file(disk, inc.path).exc # NoExc
         THEN Failed(hash_file(disk, inc.path).exc)
         ELSE IF hash_file(disk, inc.path).val = known.file_hash
         THEN Todo("update", [known EXCEPT !.path = inc.path], idx)
         ELSE Todo("add", complete(inc, hash_file(disk, inc.path).val, f16b), -1)
    ELSE IF f16b = known.first_16b
         THEN Todo("update", [known EXCEPT !.path = inc.path], idx)
         ELSE AddNew(inc, disk, f16b)

\* The match statement of _add_new_files_th on the two lookups, each None or
\* Some(<<index, record>>).
Classify(inc, disk, bypath, bydvin, small) ==
    IF bypath # None /\ bydvin # None THEN Todo("continue", NoInfo, -1)
    ELSE IF read_16b(disk, inc.path).exc # NoExc
    THEN Failed(read_16b(disk, inc.path).exc)
    ELSE IF bydvin = None THEN AddNew(inc, disk, read_16b(disk, inc.path).val)
    ELSE Moved(inc, disk, read_16b(disk, inc.path).val,
               bydvin[1][1], bydvin[1][2], small)

\* The exceptions the worker logs, after which it takes the next file.
Logged == {"PermissionError", "FileNotFoundError"}

\* _check_stale_files over the stale paths in the order the set lists them:
\* pop_item for each, until one raises.
RECURSIVE _check_stale_files(_, _)
_check_stale_files(d, stale) ==
    IF stale = <<>> THEN Ret(d, NoExc, 0)
    ELSE CHOOSE out \in
            {IF r.exc # NoExc THEN r ELSE _check_stale_files(r.db, Tail(stale)) :
             r \in {pop_item_path(d, Head(stale))}} : TRUE

\* ------------------------------------------- SpecScan: main calls update_db

\* performance.max_threads is at most MaxThreads.
MaxThreads == 2
\* The disk holds at most MaxFiles files.
MaxFiles == 2

\* A worker thread: pc is its position in _add_new_files_th, inc the file it
\* holds, bypath and bydvin the two lookups, exc the exception that ended it.
Thread(pc, inc, bypath, bydvin, exc) ==
    [pc |-> pc, inc |-> inc, bypath |-> bypath, bydvin |-> bydvin, exc |-> exc]

Idle == Thread("next", NoInfo, None, None, NoExc)

\* The records of the database before the scan.
KnownX == FileInfo(PX, 2, 1, 1, 1, "h1", "p1")
KnownY == FileInfo(PY, 1, 1, 2, 1, "h2", "p2")
ScanKnown == {<<>>, <<KnownX>>, <<KnownY>>, <<KnownX, KnownY>>}

\* The files of the disk: PX as recorded; PY as recorded, or rewritten in
\* place at a later time, or the recorded PX under a new name; PW, the
\* recorded PX under a new name and rewritten at a later time; PZ, a new
\* file of directory b.
ScanFiles ==
    {DiskFile(PX, 2, 1, 1, "h1", "p1", e) : e \in {"none", "stat", "read"}}
    \cup {DiskFile(PY, 1, 1, 2, "h2", "p2", e) : e \in {"none", "stat"}}
    \cup {DiskFile(PY, 1, 2, 2, "h1", "p1", "none"),
          DiskFile(PY, 2, 1, 1, "h1", "p1", "none"),
          DiskFile(PW, 2, 2, 1, "h2", "p1", "none"),
          DiskFile(PZ, 1, 1, 3, "h1", "p1", "none")}

ScanDisks ==
    {s \in UNION {[1..n -> ScanFiles] : n \in 1..MaxFiles} :
        \A i, j \in 1..Len(s) : s[i].path = s[j].path => i = j}

MatchAll == Pattern(<<>>, FALSE, "all")

ScanDirs ==
    {<<DirA("KEEP", FALSE)>>, <<DirA2>>, <<DirA("KEEP", FALSE), DirA2>>,
     <<DirA("KEEP", FALSE), DirB("DELETE", 0)>>}

ScanConfigs ==
    [dirs : ScanDirs,
     pattern : {MatchAll, Pattern(<<SizePattern(Some(2), None)>>, FALSE, "all")},
     small_file_size : {None, Some(1)},
     max_threads : 1..MaxThreads]

\* History of the scan: for each path of the disk, how many times a worker
\* has computed its fingerprints and handed it to add_item or update_item.
NoneSent(disk) == [p \in {disk[i].path : i \in 1..Len(disk)} |-> 0]

InitScan ==
    /\ \E infos \in ScanKnown : db = Populated(infos)
    /\ last = NoCall
    /\ config \in ScanConfigs
    /\ \E disk \in ScanDisks :
        scan = [pc |-> "workers", disk |-> disk,
                iter |-> iterate_files(config.dirs, disk),
                checked |-> {}, th |-> [t \in 1..config.max_threads |-> Idle],
                before |-> {}, exc |-> NoExc, sent |-> NoneSent(disk)]
    /\ deq = "unused"
    /\ exe = "unused"
    /\ clients = "unused"
    /\ cache = "unused"
    /\ run = "unused"
    /\ pat = "unused"
    /\ tree = "unused"
    /\ locks = "unused"

Threads == DOMAIN scan.th

\* for file_info_inc in iter: next() under the iterator's lock. The
\* generator stats the file it yields; when that raises, the generator is
\* finished and the exception ends the worker. Then the global pattern.
ThNext(t) ==
    /\ scan.pc = "workers" /\ scan.th[t].pc = "next"
    /\ IF scan.iter = <<>>
       THEN scan' = [scan EXCEPT !.th[t].pc = "done"]
       ELSE \E r \in {read_file_info(Head(scan.iter))} :
            IF r.exc # NoExc
            THEN scan' = [scan EXCEPT !.iter = <<>>,
                                      !.th[t] = Thread("dead", NoInfo, None, None, r.exc)]
            ELSE IF ~Match(config.pattern, r.val)
            THEN scan' = [scan EXCEPT !.iter = Tail(@)]
            ELSE scan' = [scan EXCEPT !.iter = Tail(@),
                                      !.th[t] = Thread("checked", r.val, None, None, NoExc)]
    /\ UNCHANGED <<db, last, config, deq, exe, clients, cache, run, pat, tree, locks>>

\* if file_info_inc.path in checked_files: continue
ThChecked(t) ==
    /\ scan.pc = "workers" /\ scan.th[t].pc = "checked"
    /\ scan' = [scan EXCEPT !.th[t] =
                    IF @.inc.path \in scan.checked THEN Idle ELSE [@ EXCEPT !.pc = "mark"]]
    /\ UNCHANGED <<db, last, config, deq, exe, clients, cache, run, pat, tree, locks>>

\* The directory config of the file; without one, continue; with one,
\* checked_files.add(path).
ThMark(t) ==
    /\ scan.pc = "workers" /\ scan.th[t].pc = "mark"
    /\ IF _get_directory_config_for_path(scan.th[t].inc, config.dirs) = None
       THEN scan' = [scan EXCEPT !.th[t] = Idle]
       ELSE scan' = [scan EXCEPT !.checked = @ \cup {scan.th[t].inc.path},
                                 !.th[t].pc = "bypath"]
    /\ UNCHANGED <<db, last, config, deq, exe, clients, cache, run, pat, tree, locks>>

\* db.get_item(path=...)
ThGetByPath(t) ==
    /\ scan.pc = "workers" /\ scan.th[t].pc = "bypath"
    /\ scan' = [scan EXCEPT !.th[t].bypath = get_item_path(db, scan.th[t].inc.path),
                            !.th[t].pc = "bydvin"]
    /\ UNCHANGED <<db, last, config, deq, exe, clients, cache, run, pat, tree, locks>>

\* db.get_item(device_inode=...)
ThGetByDvin(t) ==
    /\ scan.pc = "workers" /\ scan.th[t].pc = "bydvin"
    /\ scan' = [scan EXCEPT !.th[t].bydvin =
                    get_item_dvin(db, <<scan.th[t].inc.device, scan.th[t].inc.inode>>),
                            !.th[t].pc = "submit"]
    /\ UNCHANGED <<db, last, config, deq, exe, clients, cache, run, pat, tree, locks>>

\* The try block: classify the file, then add_item or update_item. A
\* PermissionError or FileNotFoundError is logged and the worker takes the
\* next file; any other exception ends the worker.
ThSubmit(t) ==
    /\ scan.pc = "workers" /\ scan.th[t].pc = "submit"
    /\ \E todo \in {Classify(scan.th[t].inc, scan.disk, scan.th[t].bypath,
                             scan.th[t].bydvin, config.small_file_size)} :
       \E r \in {IF todo.exc # NoExc THEN Ret(db, todo.exc, 0)
                 ELSE IF todo.action = "add" THEN add_item(db, todo.item)
                 ELSE IF todo.action = "update"
                 THEN update_item(db, todo.item, todo.old_idx)
                 ELSE Ret(db, NoExc, 0)} :
            /\ db' = r.db
            /\ scan' = [scan EXCEPT !.th[t] =
                            IF r.exc = NoExc \/ r.exc \in Logged THEN Idle
                            ELSE Thread("dead", @.inc, @.bypath, @.bydvin, r.exc),
                                      !.sent[scan.th[t].inc.path] =
                            IF todo.exc = NoExc /\ todo.action \in {"add", "update"}
                            THEN @ + 1 ELSE @]
    /\ UNCHANGED <<last, config, deq, exe, clients, cache, run, pat, tree, locks>>

\* _add_new_files has joined every worker; _check_stale_files pops the
\* paths of the index that are not in checked_files. An exception of
\* pop_item leaves update_db.
CheckStaleFiles ==
    /\ scan.pc = "workers"
    /\ \A t \in Threads : scan.th[t].pc \in {"done", "dead"}
    /\ \E stale \in Orders(DOMAIN db.path_index \ scan.checked) :
       \E r \in {_check_stale_files(db, stale)} :
            /\ db' = r.db
            /\ scan' = [scan EXCEPT !.pc = "swept", !.exc = r.exc,
                                    !.before = DOMAIN db.path_index]
    /\ UNCHANGED <<last, config, deq, exe, clients, cache, run, pat, tree, locks>>

NextScan ==
    \/ \E t \in Threads : ThNext(t)
    \/ \E t \in Threads : ThChecked(t)
    \/ \E t \in Threads : ThMark(t)
    \/ \E t \in Threads : ThGetByPath(t)
    \/ \E t \in Threads : ThGetByDvin(t)
    \/ \E t \in Threads : ThSubmit(t)
    \/ CheckStaleFiles

SpecScan == InitScan /\ [][NextScan]_vars

\* ---------------------------------------------------------- act_decisions

Actions == {"UNDEFINED", "NOACTION", "KEEP", "RETIME", "LINK", "TRASH", "DELETE"}

\* The disk as act_decisions changes it: for each path whether the file is
\* there and its modified time.
OnDisk(modified) == [present |-> TRUE, modified |-> modified]

\* No filesystem call, or the call a decision made and whether it succeeded.
NoOp == [name |-> "none", ok |-> TRUE]
Op(name, ok) == [name |-> name, ok |-> ok]

\* The state after one pass of the loop: loop is FALSE when an exception
\* left the while loop.
Pass(d, disk, saved_space, op, loop) ==
    [db |-> d, disk |-> disk, saved_space |-> saved_space, op |-> op, loop |-> loop]

\* The tally of a dry run that saved is counting, after one decision.
TrashOnly(saved, decision) ==
    IF decision.action = "TRASH" THEN saved + decision.file_info.size ELSE saved

\* The tally of a dry run after one decision: TRASH and DELETE add the size
\* of the file.
DryRun(saved, decision) ==
    IF decision.action \in {"TRASH", "DELETE"}
    THEN saved + decision.file_info.size ELSE saved

\* RETIME without dry_run: without a time, continue; else utime, whose
\* exception is caught by the handler around the loop.
Retime(d, disk, saved, decision, ok) ==
    IF decision.time = None THEN Pass(d, disk, saved, NoOp, TRUE)
    ELSE IF ok
    THEN Pass(d, [disk EXCEPT ![decision.file_info.path].modified = decision.time[1]],
              saved, Op("utime", TRUE), TRUE)
    ELSE Pass(d, disk, saved, Op("utime", FALSE), FALSE)

\* TRASH and DELETE without dry_run: send2trash or unlink, then pop_item,
\* then the tally; an exception of any of the three is logged.
Remove(d, disk, saved, decision, name, ok) ==
    IF ~ok THEN Pass(d, disk, saved, Op(name, FALSE), TRUE)
    ELSE CHOOSE out \in
            {Pass(r.db, [disk EXCEPT ![decision.file_info.path].present = FALSE],
                  IF r.exc = NoExc THEN saved + decision.file_info.size ELSE saved,
                  Op(name, TRUE), TRUE) :
             r \in {pop_item_index(d, decision.file_index)}} : TRUE

\* One pass of the loop of act_decisions on the decision taken from the
\* queue; ok tells whether the filesystem call, if one is made, succeeds.
ActOn(d, disk, saved, decision, dry_run, ok) ==
    IF dry_run THEN Pass(d, disk, DryRun(saved, decision), NoOp, TRUE)
    ELSE CASE decision.action = "RETIME" -> Retime(d, disk, saved, decision, ok)
           [] decision.action = "TRASH" ->
                Remove(d, disk, saved, decision, "send2trash", ok)
           [] decision.action = "DELETE" ->
                Remove(d, disk, saved, decision, "unlink", ok)
           [] OTHER -> Pass(d, disk, saved, NoOp, TRUE)

\* ------------------------------------------ SpecAct: main calls act_decisions

\* The queue holds at most MaxQueue decisions.
MaxQueue == 2

ActKnown == <<KnownX, KnownY>>

\* Decisions on the two files of the database; a RETIME with and without time.
ActDecisions ==
    {Decision(None, i, ActKnown[i], a) : i \in 1..2, a \in Actions}
    \cup {[Decision(None, i, ActKnown[i], "RETIME") EXCEPT !.time = Some(MaxModified)] :
            i \in 1..2}

ActQueues == UNION {[1..n -> ActDecisions] : n \in 0..MaxQueue}

InitAct ==
    /\ db = Populated(ActKnown)
    /\ last = NoCall
    /\ \E dry_run \in BOOLEAN : config = [dry_run |-> dry_run]
    /\ scan = "unused"
    /\ \E queue \in ActQueues :
        /\ deq = [pc |-> "act_decisions", exc |-> NoExc, queue |-> queue]
        /\ exe = [pc |-> "loop", saved_space |-> 0, returned |-> 0,
                  disk |-> [p \in {PX, PY} |->
                             OnDisk(IF p = PX THEN KnownX.modified ELSE KnownY.modified)],
                  op |-> NoOp, calls |-> 0, queued |-> queue, db0 |-> db]
    /\ clients = "unused"
    /\ cache = "unused"
    /\ run = "unused"
    /\ pat = "unused"
    /\ tree = "unused"
    /\ locks = "unused"

\* decision_queue.get and the match on decision.action. A filesystem call
\* on a file that is gone fails; on a file that is there it may fail.
ActDecision ==
    /\ exe.pc = "loop" /\ deq.queue # <<>>
    /\ \E ok \in {b \in BOOLEAN : b => exe.disk[Head(deq.queue).file_info.path].present} :
       \E r \in {ActOn(db, exe.disk, exe.saved_space, Head(deq.queue), config.dry_run, ok)} :
            /\ db' = r.db
            /\ deq' = [deq EXCEPT !.queue = Tail(@)]
            /\ exe' = [exe EXCEPT !.disk = r.disk, !.saved_space = r.saved_space,
                                  !.op = r.op,
                                  !.calls = IF r.op = NoOp THEN @ ELSE @ + 1,
                                  !.pc = IF r.loop THEN "loop" ELSE "returned",
                                  !.returned = IF r.loop THEN @ ELSE r.saved_space]
    /\ UNCHANGED <<last, config, scan, clients, cache, run, pat, tree, locks>>

\* decision_queue.get raises Empty: return saved_space
ActReturn ==
    /\ exe.pc = "loop" /\ deq.queue = <<>>
    /\ exe' = [exe EXCEPT !.pc = "returned", !.returned = exe.saved_space, !.op = NoOp]
    /\ UNCHANGED <<db, last, config, scan, deq, clients, cache, run, pat, tree, locks>>

NextAct == ActDecision \/ ActReturn

SpecAct == InitAct /\ [][NextAct]_vars

\* ------------------------------- SpecConc: concurrent callers of the StatDB

\* Each caller issues at most MaxCalls calls.
MaxCalls == 2

\* The callers work on pairwise disjoint paths: caller 1 on PX, caller 2 on PY.
ConcPaths == <<PX, PY>>

ConcInfos(path) ==
    IF path = PX
    THEN {FileInfo(PX, 1, 1, 1, 1, "h1", "p1"), FileInfo(PX, 1, 1, 1, 1, "h2", "p1")}
    ELSE {FileInfo(PY, 1, 1, 1, 1, "h1", "p1"), FileInfo(PY, 1, 1, 2, 1, "h2", "p2")}

\* The calls a caller may issue on its path.
ConcCalls(path) ==
    {[op |-> "add_item", info |-> i] : i \in ConcInfos(path)}
    \cup {[op |-> "update_item", info |-> i] : i \in ConcInfos(path)}
    \cup {[op |-> "pop_item_path", info |-> KeyPath(path)]}

ConcPrograms(path) == UNION {[1..n -> ConcCalls(path)] : n \in 0..MaxCalls}

\* One call, made under the lock of the StatDB.
Exec(d, call) ==
    CASE call.op = "add_item" -> add_item(d, call.info)
      [] call.op = "update_item" -> update_item(d, call.info, 0)
      [] call.op = "pop_item_path" -> pop_item_path(d, call.info.path)

\* The database after the calls made one after the other.
RECURSIVE Serial(_, _)
Serial(d, calls) ==
    IF calls = <<>> THEN d
    ELSE CHOOSE out \in
            {Serial(r.db, Tail(calls)) : r \in {Exec(d, Head(calls))}} : TRUE

\* The multiset of the records of a database: how often each occurs.
Records(d) ==
    [r \in {d.file_info[i] : i \in DOMAIN d.file_info} |->
        Cardinality({i \in DOMAIN d.file_info : d.file_info[i] = r})]

InitConc ==
    /\ db = LoadedDb
    /\ last = NoCall
    /\ config = "unused"
    /\ scan = "unused"
    /\ deq = "unused"
    /\ exe = "unused"
    /\ \E p1 \in ConcPrograms(ConcPaths[1]), p2 \in ConcPrograms(ConcPaths[2]) :
        clients = [program |-> <<p1, p2>>, left |-> <<p1, p2>>]
    /\ cache = "unused"
    /\ run = "unused"
    /\ pat = "unused"
    /\ tree = "unused"
    /\ locks = "unused"

\* The caller c makes its next call: with self._lock, the whole call.
ClientCall(c) ==
    /\ clients.left[c] # <<>>
    /\ \E r \in {Exec(db, Head(clients.left[c]))} :
        /\ db' = r.db
        /\ last' = Call(Head(clients.left[c]).op, Head(clients.left[c]).info, 0, r)
    /\ clients' = [clients EXCEPT !.left[c] = Tail(@)]
    /\ UNCHANGED <<config, scan, deq, exe, cache, run, pat, tree, locks>>

NextConc == \E c \in 1..Len(ConcPaths) : ClientCall(c)

SpecConc == InitConc /\ [][NextConc]_vars

\* ------------------------------------------------------ the snapshot file

\* str(path): the components, each after a separator.
RECURSIVE PathStr(_)
PathStr(path) ==
    IF path = <<>> THEN <<>> ELSE <<"/", Head(path)>> \o PathStr(Tail(path))

\* Path(str): the components between the separators.
PathOf(str) == SelectSeq(str, LAMBDA c : c # "/")

\* _ser_fileinfo: the JSON object of a record (keys 'in' and '16' are
\* written ino and f16 here).
_ser_fileinfo(f) ==
    [fp |-> PathStr(f.path), sz |-> f.size, mt |-> f.modified, at |-> f.accessed,
     ct |-> f.created, ino |-> f.inode, dv |-> f.device, fh |-> f.file_hash,
     f16 |-> f.first_16b]

\* int(v or -1): a number that is 0 reads as -1.
IntOr(v) == IF v = 0 THEN -1 ELSE v

\* _de_fileinfo
_de_fileinfo(d) ==
    [path |-> PathOf(d.fp), size |-> IntOr(d.sz), modified |-> IntOr(d.mt),
     accessed |-> IntOr(d.at), created |-> IntOr(d.ct), inode |-> IntOr(d.ino),
     device |-> IntOr(d.dv), file_hash |-> d.fh, first_16b |-> d.f16]

\* The values of a dict keyed by index numbers, in insertion order (index
\* numbers are handed out in increasing order and never reused).
RECURSIVE Values(_)
Values(d) ==
    IF DOMAIN d = {} THEN <<>>
    ELSE Values(Del(d, MaxOf(DOMAIN d))) \o <<d[MaxOf(DOMAIN d)]>>

\* _save_cache / _load_cache: the list of the 'files' key
_save_cache(file_info) ==
    [k \in 1..Cardinality(DOMAIN file_info) |-> _ser_fileinfo(Values(file_info)[k])]

_load_cache(files) == [k \in 1..Len(files) |-> _de_fileinfo(files[k])]

\* The StatDB object beside its tables: whether cache_path is set, whether
\* load was called ("no", "yes", or "raised" when it did not return),
\* whether accepted_collisions exists; the snapshot file, None or
\* Some(files); the records written by the last save.
Store(cache_path, loaded, collisions, file, saved) ==
    [cache_path |-> cache_path, loaded |-> loaded, collisions |-> collisions,
     file |-> file, saved |-> saved]

\* The outcome of load and save: the tables, the object and file, the error.
Done(d, c, exc) == [db |-> d, cache |-> c, exc |-> exc, idx |-> 0]

\* for finfo in cache: self._add_item(finfo)
RECURSIVE LoadItems(_, _)
LoadItems(d, items) ==
    IF items = <<>> THEN Ret(d, NoExc, 0)
    ELSE CHOOSE out \in
            {IF r.exc # NoExc THEN r ELSE LoadItems(r.db, Tail(items)) :
             r \in {_add_item(d, Head(items))}} : TRUE

\* StatDB.load
load(d, c) ==
    IF c.loaded # "no" THEN Done(d, c, "RuntimeError")
    ELSE IF ~c.cache_path
    THEN Done([LoadedDb EXCEPT !.index = d.index], [c EXCEPT !.loaded = "yes"], NoExc)
    ELSE CHOOSE out \in
            {IF r.exc # NoExc
             THEN Done(r.db, [c EXCEPT !.loaded = "raised"], r.exc)
             ELSE Done(r.db, [c EXCEPT !.loaded = "yes", !.collisions = TRUE], NoExc) :
             r \in {LoadItems([LoadedDb EXCEPT !.index = d.index],
                              IF c.file = None THEN <<>> ELSE _load_cache(c.file[1]))}} : TRUE

\* A save that writes whether or not the database is dirty.
SaveAlways(d, c) ==
    IF c.loaded = "no" THEN Done(d, c, "RuntimeError")
    ELSE IF ~c.cache_path THEN Done(d, c, "ValueError")
    ELSE IF ~c.collisions THEN Done(d, c, "AttributeError")
    ELSE Done(d, [c EXCEPT !.file = Some(_save_cache(d.file_info)),
                           !.saved = Some(Values(d.file_info))], NoExc)

\* StatDB.save
save(d, c) ==
    IF c.loaded = "no" THEN Done(d, c, "RuntimeError")
    ELSE IF ~d.dirty THEN Done(d, c, NoExc)
    ELSE IF ~c.cache_path THEN Done(d, c, "ValueError")
    ELSE IF ~c.collisions THEN Done(d, c, "AttributeError")
    ELSE Done(d, [c EXCEPT !.file = Some(_save_cache(d.file_info)),
                           !.saved = Some(Values(d.file_info))], NoExc)

\* -------------------------------- SpecSnap: load, calls, save, a new object

\* A record with no number 0, one of an empty file, one of another path.
SnapInfos ==
    {[FileInfo(PX, 1, 1, 1, 1, "h1", "p1") EXCEPT !.accessed = 1, !.created = 1],
     [FileInfo(PX, 0, 1, 1, 1, "h2", "p1") EXCEPT !.accessed = 1, !.created = 1],
     [FileInfo(PY, 1, 1, 2, 1, "h1", "p2") EXCEPT !.accessed = 1, !.created = 1]}

InitSnap ==
    /\ db = LoadedDb
    /\ last = NoCall
    /\ config = "unused"
    /\ scan = "unused"
    /\ deq = "unused"
    /\ exe = "unused"
    /\ clients = "unused"
    /\ \E cache_path \in BOOLEAN : cache = Store(cache_path, "no", FALSE, None, None)
    /\ run = "unused"
    /\ pat = "unused"
    /\ tree = "unused"
    /\ locks = "unused"

SnapLoad ==
    /\ \E r \in {load(db, cache)} :
        /\ db' = r.db
        /\ cache' = r.cache
        /\ last' = Call("load", NoInfo, 0, r)
    /\ UNCHANGED <<config, scan, deq, exe, clients, run, pat, tree, locks>>

SnapSave ==
    /\ \E r \in {save(db, cache)} :
        /\ db' = r.db
        /\ cache' = r.cache
        /\ last' = Call("save", NoInfo, 0, r)
    /\ UNCHANGED <<config, scan, deq, exe, clients, run, pat, tree, locks>>

\* A call of a client of the loaded database.
SnapCall ==
    /\ cache.loaded # "no"
    /\ \E call \in [op : {"add_item", "update_item"}, info : SnapInfos]
                   \cup {[op |-> "pop_item_path", info |-> KeyPath(p)] : p \in {PX, PY}} :
        /\ call.op = "add_item" => db.index < MaxIndex
        /\ \E r \in {Exec(db, call)} :
            /\ db' = r.db
            /\ last' = Call(call.op, call.info, 0, r)
    /\ UNCHANGED <<config, scan, deq, exe, clients, cache, run, pat, tree, locks>>

\* update_item(info, index) of a client that names the record by its index.
SnapUpdateAt ==
    /\ cache.loaded # "no"
    /\ \E info \in SnapInfos, index \in 1..MaxIndex :
       \E r \in {update_item(db, info, index)} :
            /\ db' = r.db
            /\ last' = Call("update_item", info, index, r)
    /\ UNCHANGED <<config, scan, deq, exe, clients, cache, run, pat, tree, locks>>

\* The next run of the program: a new StatDB on the same cache_path.
SnapNew ==
    /\ cache.loaded # "no"
    /\ db' = LoadedDb
    /\ cache' = [cache EXCEPT !.loaded = "no", !.collisions = FALSE]
    /\ last' = NoCall
    /\ UNCHANGED <<config, scan, deq, exe, clients, run, pat, tree, locks>>

NextSnap == SnapLoad \/ SnapSave \/ SnapCall \/ SnapUpdateAt \/ SnapNew

SpecSnap == InitSnap /\ [][NextSnap]_vars

\* ------------------------------------------------------ SpecRun: run()

\* act_decisions on a whole queue; oks tells for each decision whether its
\* filesystem call would succeed on a file that is there.
RECURSIVE act_decisions(_, _, _, _, _, _)
act_decisions(d, disk, saved, queue, dry_run, oks) ==
    IF queue = <<>> THEN Pass(d, disk, saved, NoOp, TRUE)
    ELSE CHOOSE out \in
            {IF ~r.loop THEN r
             ELSE act_decisions(r.db, r.disk, r.saved_space, Tail(queue), dry_run, Tail(oks)) :
             r \in {ActOn(d, disk, saved, Head(queue), dry_run,
                          Head(oks) /\ disk[Head(queue).file_info.path].present)}} : TRUE

\* The position of the main thread in run() and main(): "start" before
\* db.load(), "workers" while update_db has its threads running, "check_db",
\* "act_decisions", "finally" before db.save(), "saved" after it, "exit";
\* how main was left ("none": it returned), and what db.save() raised.
Run(pc, how, save_exc) == [pc |-> pc, how |-> how, save_exc |-> save_exc]

\* The snapshot a former run may have left at cache_path.
RunFiles == {None, Some(<<>>), Some(<<_ser_fileinfo(KnownX)>>)}

RunConfigs ==
    [dirs : {<<DirA("KEEP", FALSE)>>}, pattern : {MatchAll}, small_file_size : {None},
     max_threads : 1..MaxThreads, dry_run : BOOLEAN]

RunDisks == {s \in ScanDisks : \A i \in 1..Len(s) : s[i].err # "read"}

InitRun ==
    /\ db = LoadedDb
    /\ last = NoCall
    /\ config \in RunConfigs
    /\ \E disk \in RunDisks :
        /\ scan = [pc |-> "idle", disk |-> disk,
                   iter |-> iterate_files(config.dirs, disk),
                   checked |-> {}, th |-> [t \in 1..config.max_threads |-> Idle],
                   before |-> {}, exc |-> NoExc, sent |-> NoneSent(disk)]
        /\ exe = [disk |-> [p \in {disk[i].path : i \in 1..Len(disk)} |->
                                OnDisk(disk[DiskAt(disk, p)].modified)],
                  saved_space |-> 0]
    /\ deq = [pc |-> "check_db", exc |-> NoExc, queue |-> <<>>]
    /\ clients = "unused"
    /\ \E cache_path \in BOOLEAN, file \in RunFiles :
        cache = Store(cache_path, "no", FALSE, IF cache_path THEN file ELSE None, None)
    /\ run = Run("start", "none", NoExc)
    /\ pat = "unused"
    /\ tree = "unused"
    /\ locks = "unused"

\* main: db.load(), then update_db starts the worker threads. An exception
\* of load leaves main.
RunLoad ==
    /\ run.pc = "start"
    /\ \E r \in {load(db, cache)} :
        /\ db' = r.db
        /\ cache' = r.cache
        /\ last' = Call("load", NoInfo, 0, r)
        /\ IF r.exc # NoExc
           THEN run' = [run EXCEPT !.pc = "finally", !.how = r.exc] /\ scan' = scan
           ELSE run' = [run EXCEPT !.pc = "workers"]
                /\ scan' = [scan EXCEPT !.pc = "workers"]
    /\ UNCHANGED <<config, deq, exe, clients, pat, tree, locks>>

\* The worker threads are daemon threads: they run until the process exits,
\* whatever the main thread does.
RunWorker ==
    /\ run.pc # "exit"
    /\ \E t \in Threads :
        \/ ThNext(t) \/ ThChecked(t) \/ ThMark(t)
        \/ ThGetByPath(t) \/ ThGetByDvin(t) \/ ThSubmit(t)

\* update_db: every thread joined, then _check_stale_files.
RunSweep ==
    /\ run.pc = "workers"
    /\ \A t \in Threads : scan.th[t].pc \in {"done", "dead"}
    /\ \E stale \in Orders(DOMAIN db.path_index \ scan.checked) :
       \E r \in {_check_stale_files(db, stale)} :
            /\ db' = r.db
            /\ scan' = [scan EXCEPT !.pc = "swept", !.exc = r.exc,
                                    !.before = DOMAIN db.path_index]
            /\ run' = IF r.exc # NoExc THEN [run EXCEPT !.pc = "finally", !.how = r.exc]
                      ELSE [run EXCEPT !.pc = "check_db"]
    /\ UNCHANGED <<last, config, deq, exe, clients, cache, pat, tree, locks>>

\* main: check_db fills the decision queue.
RunCheckDb ==
    /\ run.pc = "check_db"
    /\ \E keys \in Orders(DOMAIN db.hash_index) :
       \E r \in {check_db(db, config.dirs, keys, <<>>)} :
            /\ deq' = [pc |-> "act_decisions", exc |-> r.exc, queue |-> r.decs]
            /\ run' = IF r.exc # NoExc THEN [run EXCEPT !.pc = "finally", !.how = r.exc]
                      ELSE [run EXCEPT !.pc = "act_decisions"]
    /\ UNCHANGED <<db, last, config, scan, exe, clients, cache, pat, tree, locks>>

\* main: act_decisions drains the queue; main returns.
RunAct ==
    /\ run.pc = "act_decisions"
    /\ \E oks \in [1..Len(deq.queue) -> BOOLEAN] :
       \E r \in {act_decisions(db, exe.disk, 0, deq.queue, config.dry_run, oks)} :
            /\ db' = r.db
            /\ exe' = [disk |-> r.disk, saved_space |-> r.saved_space]
    /\ deq' = [deq EXCEPT !.queue = <<>>]
    /\ run' = [run EXCEPT !.pc = "finally"]
    /\ UNCHANGED <<last, config, scan, clients, cache, pat, tree, locks>>

\* KeyboardInterrupt or SystemExit raised in the main thread inside main.
RunInterrupt ==
    /\ run.pc \in {"start", "workers", "check_db", "act_decisions"}
    /\ \E how \in {"KeyboardInterrupt", "SystemExit"} :
        run' = [run EXCEPT !.pc = "finally", !.how = how]
    /\ UNCHANGED <<db, last, config, scan, deq, exe, clients, cache, pat, tree, locks>>

\* finally: db.save()
RunSave ==
    /\ run.pc = "finally"
    /\ \E r \in {save(db, cache)} :
        /\ db' = r.db
        /\ cache' = r.cache
        /\ last' = Call("save", NoInfo, 0, r)
        /\ run' = [run EXCEPT !.pc = "saved", !.save_exc = r.exc]
    /\ UNCHANGED <<config, scan, deq, exe, clients, pat, tree, locks>>

\* The process exits; its daemon threads end with it.
RunExit ==
    /\ run.pc = "saved"
    /\ run' = [run EXCEPT !.pc = "exit"]
    /\ UNCHANGED <<db, last, config, scan, deq, exe, clients, cache, pat, tree, locks>>

NextRun ==
    \/ RunLoad \/ RunWorker \/ RunSweep \/ RunCheckDb \/ RunAct
    \/ RunInterrupt \/ RunSave \/ RunExit

SpecRun == InitRun /\ [][NextRun]_vars

\* ------------------------------------------------- strings and re patterns

\* A str is the sequence of its characters.
DigitChars == <<"0", "1", "2", "3", "4", "5", "6", "7", "8", "9">>
Digit == SeqElems(DigitChars)

DigitValue(c) == (CHOOSE i \in 1..10 : DigitChars[i] = c) - 1

\* int(s) for a str of digits
RECURSIVE IntOf(_)
IntOf(s) ==
    IF s = <<>> THEN 0
    ELSE IntOf(SubSeq(s, 1, Len(s) - 1)) * 10 + DigitValue(s[Len(s)])

\* str(n) for n >= 0
RECURSIVE StrOf(_)
StrOf(n) ==
    IF n < 10 THEN <<DigitChars[n + 1]>>
    ELSE Append(StrOf(n \div 10), DigitChars[(n % 10) + 1])

LowerCase == <<"k", "m", "g", "t", "p", "i", "b", "y", "o", "w", "d", "h", "s", "x">>
UpperCase == <<"K", "M", "G", "T", "P", "I", "B", "Y", "O", "W", "D", "H", "S", "X">>

CaseOf(c, from, to) ==
    IF \E i \in 1..Len(from) : from[i] = c
    THEN to[CHOOSE i \in 1..Len(from) : from[i] = c]
    ELSE c

\* str.upper / str.lower
Upper(s) == [i \in 1..Len(s) |-> CaseOf(s[i], LowerCase, UpperCase)]
Lower(s) == [i \in 1..Len(s) |-> CaseOf(s[i], UpperCase, LowerCase)]

\* str.strip
RECURSIVE Strip(_)
Strip(s) ==
    IF s # <<>> /\ Head(s) = " " THEN Strip(Tail(s))
    ELSE IF s # <<>> /\ s[Len(s)] = " " THEN Strip(SubSeq(s, 1, Len(s) - 1))
    ELSE s

\* str.rstrip(c)
RECURSIVE RStrip(_, _)
RStrip(s, c) ==
    IF s # <<>> /\ s[Len(s)] = c THEN RStrip(SubSeq(s, 1, Len(s) - 1), c) ELSE s

\* str.lstrip(c)
RECURSIVE LStrip(_, _)
LStrip(s, c) == IF s # <<>> /\ Head(s) = c THEN LStrip(Tail(s), c) ELSE s

StartsWith(s, t) == Len(t) <= Len(s) /\ SubSeq(s, 1, Len(t)) = t
EndsWith(s, t) == Len(t) <= Len(s) /\ SubSeq(s, Len(s) - Len(t) + 1, Len(s)) = t

\* The regular expressions of re, as trees: one character of a set, a
\* sequence of expressions, a greedy optional expression, a greedy repetition
\* of one or more.
ReSet(chars) == [t |-> "set", chars |-> chars]
ReCat(parts) == [t |-> "cat", parts |-> parts]
ReOpt(r) == [t |-> "opt", r |-> r]
RePlus(r) == [t |-> "plus", r |-> r]

ReLit(s) == ReCat([i \in 1..Len(s) |-> ReSet({s[i]})])

RECURSIVE Flatten(_)
Flatten(ss) == IF ss = <<>> THEN <<>> ELSE Head(ss) \o Flatten(Tail(ss))

\* The positions at which a match of re that starts at position i of s may
\* end (the position after its last character), in the order in which the
\* backtracking matcher of re tries them.
RECURSIVE ReEnds(_, _, _)
ReEnds(re, s, i) ==
    CASE re.t = "set" ->
            IF i <= Len(s) /\ s[i] \in re.chars THEN <<i + 1>> ELSE <<>>
      [] re.t = "cat" ->
            IF re.parts = <<>> THEN <<i>>
            ELSE CHOOSE out \in
                    {Flatten([k \in 1..Len(first) |->
                                ReEnds(ReCat(Tail(re.parts)), s, first[k])]) :
                     first \in {ReEnds(Head(re.parts), s, i)}} : TRUE
      [] re.t = "opt" -> ReEnds(re.r, s, i) \o <<i>>
      [] re.t = "plus" ->
            CHOOSE out \in
                {Flatten([k \in 1..Len(first) |->
                            IF first[k] = i THEN <<i>>
                            ELSE ReEnds(re, s, first[k]) \o <<first[k]>>]) :
                 first \in {ReEnds(re.r, s, i)}} : TRUE

\* SIZE_RE_STR and its two groups
ReNumber ==
    ReCat(<<RePlus(ReSet(Digit)), ReOpt(ReCat(<<ReSet({"."}), ReOpt(RePlus(ReSet(Digit)))>>))>>)
ReSuffix == ReOpt(ReSet({"K", "M", "G", "T", "P"}))
ReBytes == ReCat(<<ReOpt(ReSet({"I"})), ReOpt(ReSet({"B"}))>>)
SIZE_RE_STR == ReCat(<<ReNumber, ReSuffix, ReBytes>>)

\* TIME_RE_STR: its seven groups, each a number and a unit
TimeUnits == <<<<"y">>, <<"m", "o">>, <<"w">>, <<"d">>, <<"h">>, <<"m">>, <<"s">>>>
TimeSeconds == <<31536000, 2592000, 604800, 86400, 3600, 60, 1>>

ReTimeGroup(k) == ReOpt(ReCat(<<RePlus(ReSet(Digit)), ReLit(TimeUnits[k])>>))
TIME_RE_STR == ReCat([k \in 1..7 |-> ReTimeGroup(k)])

\* ----------------------------------------------------- sizes and durations

\* time_ns counts Tick units to the second. The code counts 1_000_000_000;
\* the model keeps the arithmetic of the code on a coarser clock.
Tick == 10

RECURSIVE Pow(_, _)
Pow(b, n) == IF n = 0 THEN 1 ELSE b * Pow(b, n - 1)

\* The multiplier of a size suffix
Multiplier(suffix) ==
    CASE suffix = <<"K">> -> 1024
      [] suffix = <<"M">> -> 1048576
      [] suffix = <<"G">> -> 1073741824
      [] suffix = <<"T">> -> Pow(1024, 4)
      [] suffix = <<"P">> -> Pow(1024, 5)
      [] OTHER -> 1

\* int(float(number) * multiplier) for number = digits[.[digits]]
Scaled(number, multiplier) ==
    LET dot == IF \E i \in 1..Len(number) : number[i] = "."
               THEN CHOOSE i \in 1..Len(number) : number[i] = "."
               ELSE Len(number) + 1
        whole == SubSeq(number, 1, dot - 1)
        frac == SubSeq(number, dot + 1, Len(number))
    IN  ((IntOf(whole) * Pow(10, Len(frac)) + IntOf(frac)) * multiplier)
            \div Pow(10, Len(frac))

\* parse_size of a str, or of the None of a group that did not take part
parse_size(size_str) ==
    IF size_str = None THEN Raise("AttributeError")
    ELSE CHOOSE out \in
        {LET splits ==
                Flatten([k \in 1..Len(numbers) |->
                    CHOOSE hit \in
                        {Flatten([j \in 1..Len(suffixes) |->
                            IF \E x \in SeqElems(ReEnds(ReBytes, u, suffixes[j])) :
                                    x = Len(u) + 1
                            THEN <<<<numbers[k], suffixes[j]>>>> ELSE <<>>]) :
                         suffixes \in {ReEnds(ReSuffix, u, numbers[k])}} : TRUE])
         IN  IF splits = <<>> THEN Raise("ValueError")
             ELSE Val(Scaled(SubSeq(u, 1, splits[1][1] - 1),
                             Multiplier(SubSeq(u, splits[1][1], splits[1][2] - 1)))) :
         u \in {Upper(size_str[1])},
         numbers \in {ReEnds(ReNumber, Upper(size_str[1]), 1)}} : TRUE

\* The numbers of the groups k..7 of TIME_RE matched from position i of s to
\* its end (0 for a group that does not take part), first match first.
RECURSIVE TimeGroups(_, _, _)
TimeGroups(s, k, i) ==
    IF k > 7 THEN (IF i = Len(s) + 1 THEN <<<<>>>> ELSE <<>>)
    ELSE CHOOSE out \in
            {Flatten([j \in 1..Len(ends) |->
                LET rest == TimeGroups(s, k + 1, ends[j])
                    n == IF ends[j] = i THEN 0
                         ELSE IntOf(SubSeq(s, i, ends[j] - 1 - Len(TimeUnits[k])))
                    took == IF ends[j] = i THEN 0 ELSE 1
                IN  [x \in 1..Len(rest) |-> <<<<n, took>>>> \o rest[x]]]) :
             ends \in {ReEnds(ReTimeGroup(k), s, i)}} : TRUE

RECURSIVE SumTimes(_, _)
SumTimes(groups, k) ==
    IF k > 7 THEN 0 ELSE groups[k][1] * TimeSeconds[k] + SumTimes(groups, k + 1)

\* parse_time of a str
parse_time(string) ==
    CHOOSE out \in
        {IF found = <<>> \/ \A k \in 1..7 : found[1][k][2] = 0
         THEN Raise("ValueError")
         ELSE Val(SumTimes(found[1], 1) * Tick) :
         found \in {TimeGroups(Lower(string), 1, 1)}} : TRUE

\* f"{x:.2f}".rstrip('0').rstrip('.') for x = hundredths / 100
TwoPlaces(hundredths) ==
    LET frac == hundredths % 100
        text == StrOf(hundredths \div 100) \o <<".">>
                    \o <<DigitChars[(frac \div 10) + 1], DigitChars[(frac % 10) + 1]>>
    IN  RStrip(RStrip(text, "0"), ".")

\* round(n / d * 100) as the format rounds it: to the nearest, a tie to even
Hundredths(n, d) ==
    LET q == (n * 100) \div d
        r == (n * 100) % d
    IN  IF 2 * r > d \/ (2 * r = d /\ q % 2 = 1) THEN q + 1 ELSE q

SizeUnits == <<<<"B">>, <<"k", "B">>, <<"M", "B">>, <<"G", "B">>, <<"T", "B">>, <<"P", "B">>>>

\* human_size, from the unit k on, of size / 1024^(k-1)
RECURSIVE HumanSizeFrom(_, _)
HumanSizeFrom(size, k) ==
    IF k > Len(SizeUnits) THEN TwoPlaces(Hundredths(size, Pow(1024, k - 1))) \o <<"E", "B">>
    ELSE IF size < Pow(1024, k)
    THEN TwoPlaces(Hundredths(size, Pow(1024, k - 1))) \o SizeUnits[k]
    ELSE HumanSizeFrom(size, k + 1)

human_size(size) ==
    IF size < 0 THEN Raise("ValueError") ELSE Val(HumanSizeFrom(size, 1))

\* human_time(seconds), max_chunks None: the loop over the intervals from k on
RECURSIVE HumanTimeFrom(_, _)
HumanTimeFrom(seconds, k) ==
    IF k > 7 THEN <<>>
    ELSE LET value == seconds \div TimeSeconds[k]
         IN  (IF value # 0 THEN StrOf(value) \o TimeUnits[k] ELSE <<>>)
                \o HumanTimeFrom(seconds % TimeSeconds[k], k + 1)

human_time(seconds) ==
    IF seconds < 0 THEN Raise("ValueError")
    ELSE Val(IF HumanTimeFrom(seconds, 1) = <<>> THEN <<"0", "s">>
             ELSE HumanTimeFrom(seconds, 1))

\* int(round(ns / 1e9)): to the nearest second, a tie to the even one
RoundSeconds(ns) ==
    LET q == ns \div Tick
        r == ns % Tick
    IN  IF 2 * r > Tick \/ (2 * r = Tick /\ q % 2 = 1) THEN q + 1 ELSE q

\* ------------------------------------------------------------- patterns

NamePattern(pattern, type) == [tag |-> "name", pattern |-> pattern, type |-> type]

DatePattern(min, max, type) == [tag |-> "date", min |-> min, max |-> max, type |-> type]

\* Path.name of a file whose last path component is a str
NameOf(file) == file.path[Len(file.path)]

\* Path.suffix: the name from its last dot on, if that dot is neither the
\* first nor the last character
SuffixOf(name) ==
    LET dots == {i \in 1..Len(name) : name[i] = "."}
    IN  IF dots = {} THEN <<>>
        ELSE LET i == CHOOSE i \in dots : \A j \in dots : j <= i
             IN  IF 1 < i /\ i < Len(name) THEN SubSeq(name, i, Len(name)) ELSE <<>>

\* re.fullmatch(pattern, name) for a pattern of plain characters
FullMatch(pattern, name) ==
    \E e \in SeqElems(ReEnds(ReLit(pattern), name, 1)) : e = Len(name) + 1

\* NamePattern.match
NameMatch(p, file) ==
    CASE p.type = "extension" ->
            IF p.pattern = <<".", "*">> THEN TRUE ELSE SuffixOf(NameOf(file)) = p.pattern
      [] p.type = "regex" -> FullMatch(p.pattern, NameOf(file))
      [] p.type = "name" ->
            IF p.pattern = <<"*">> THEN TRUE ELSE NameOf(file) = p.pattern
      [] OTHER -> FALSE

\* DatePattern.match, time_ns() returning now
DateMatch(p, file, now) ==
    LET modified_time == now - file.modified
    IN  /\ (p.min # None => ~(modified_time < p.min[1]))
        /\ (p.max # None => ~(modified_time > p.max[1]))

MergeInvertedAsAny(inverted, mergemode, all, any) ==
    IF inverted THEN ~any ELSE IF mergemode = "all" THEN all ELSE any

\* Pattern.match: the matches of the members merged by all() or any(),
\* inverted or not
Merge(inverted, mergemode, all, any) ==
    CASE ~inverted /\ mergemode = "all" -> all
      [] ~inverted /\ mergemode = "any" -> any
      [] inverted /\ mergemode = "all" -> ~all
      [] inverted /\ mergemode = "any" -> ~any
      [] OTHER -> FALSE

\* AnyPattern.match for the four classes of pattern, time_ns() returning now
RECURSIVE MatchAt(_, _, _)
MatchAt(p, file, now) ==
    CASE p.tag = "name" -> NameMatch(p, file)
      [] p.tag = "size" -> SizeMatch(p, file)
      [] p.tag = "date" -> DateMatch(p, file, now)
      [] p.tag = "pattern" ->
            Merge(p.inverted, p.mergemode,
                  \A i \in 1..Len(p.patterns) : MatchAt(p.patterns[i], file, now),
                  \E i \in 1..Len(p.patterns) : MatchAt(p.patterns[i], file, now))

\* The text of an optional bound: '' for None, else what human gives
BoundText(bound, human) ==
    IF bound = None THEN Val(<<>>) ELSE human

RangeText(m, M) ==
    IF m.exc # NoExc THEN m
    ELSE IF M.exc # NoExc THEN M
    ELSE Val(<<"[">> \o m.val \o <<".", ".">> \o M.val \o <<"]">>)

\* sep.join(texts)
RECURSIVE Join(_, _)
Join(texts, sep) ==
    IF texts = <<>> THEN <<>>
    ELSE IF Len(texts) = 1 THEN texts[1]
    ELSE texts[1] \o sep \o Join(Tail(texts), sep)

\* __repr__ of the four classes of pattern
RECURSIVE Repr(_)
Repr(p) ==
    CASE p.tag = "name" ->
            (CASE p.type = "extension" ->
                    Val(<<"[", "'", ".">> \o LStrip(p.pattern, ".") \o <<"'", "]">>)
               [] p.type = "name" -> Val(<<"[", "'">> \o p.pattern \o <<"'", "]">>)
               [] p.type = "regex" -> Val(<<"[", "/">> \o p.pattern \o <<"/", "]">>)
               [] OTHER -> Val(<<"[", "?">> \o p.pattern \o <<"]">>))
      [] p.tag = "size" ->
            RangeText(BoundText(p.min_size, human_size(p.min_size[1])),
                      BoundText(p.max_size, human_size(p.max_size[1])))
      [] p.tag = "date" ->
            RangeText(BoundText(p.min, human_time(RoundSeconds(p.min[1]))),
                      BoundText(p.max, human_time(RoundSeconds(p.max[1]))))
      [] p.tag = "pattern" ->
            CHOOSE out \in
                {IF \E i \in 1..Len(parts) : parts[i].exc # NoExc
                 THEN parts[CHOOSE i \in 1..Len(parts) :
                        /\ parts[i].exc # NoExc
                        /\ \A j \in 1..(i-1) : parts[j].exc = NoExc]
                 ELSE Val((IF p.inverted THEN <<"!">> ELSE <<>>) \o <<"(">>
                          \o Join([i \in 1..Len(parts) |-> parts[i].val],
                                  IF p.mergemode = "all" THEN <<"&">> ELSE <<"|">>)
                          \o <<")">>) :
                 parts \in {[i \in 1..Len(p.patterns) |-> Repr(p.patterns[i])]}} : TRUE

\* re.match of "^(?P<l>unit)?..(?P<h>unit)?$" on s: None, or the groups l
\* and h of the first match the matcher finds; a group is None when it took
\* no part in the match and else the str it matched, which may be ''.
RangeMatch(unit, s) ==
    CHOOSE out \in
        {LET \* the ends of group l in the order tried; 0: l takes no part
             after(k) == IF lows[k] = 0 THEN 1 ELSE lows[k]
             found == Flatten([k \in 1..Len(lows) |->
                CHOOSE hit \in
                    {IF q > Len(s) + 1 THEN <<>>
                     ELSE IF \E x \in SeqElems(highs) : x = Len(s) + 1
                     THEN <<[l |-> IF lows[k] = 0 THEN None
                                   ELSE Some(SubSeq(s, 1, lows[k] - 1)),
                             h |-> Some(SubSeq(s, q, Len(s)))]>>
                     ELSE IF q = Len(s) + 1
                     THEN <<[l |-> IF lows[k] = 0 THEN None
                                   ELSE Some(SubSeq(s, 1, lows[k] - 1)),
                             h |-> None]>>
                     ELSE <<>> :
                     q \in {after(k) + 2},
                     highs \in {IF after(k) + 2 > Len(s) + 1 THEN <<>>
                                ELSE ReEnds(unit, s, after(k) + 2)}} : TRUE])
         IN  IF found = <<>> THEN None ELSE Some(found[1]) :
         lows \in {ReEnds(unit, s, 1) \o <<0>>}} : TRUE

\* A range leaf: the two bounds parsed by parse, a group '' giving None; min
\* above max gives no pattern.
RangeLeaf(m, lo, hi, tag) ==
    IF lo.exc # NoExc THEN lo
    ELSE IF hi.exc # NoExc THEN hi
    ELSE IF lo.val # None /\ hi.val # None /\ lo.val[1] > hi.val[1] THEN Val(None)
    ELSE IF tag = "size" THEN Val(Some(SizePattern(lo.val, hi.val)))
    ELSE Val(Some(DatePattern(lo.val, hi.val, "modified")))

\* parse(group) if group != '' else None
Bound(group, parsed) ==
    IF group = Some(<<>>) THEN Val(None)
    ELSE CHOOSE out \in
            {IF r.exc # NoExc THEN r ELSE Val(Some(r.val)) : r \in {parsed}} : TRUE

\* _parse_pattern_fromstr on the text between [ and ]
ParseLeaf(inner) ==
    LET n == Len(inner)
    IN  IF inner = <<".", ".">> THEN Val(None)
        ELSE IF n >= 3 /\ StartsWith(inner, <<"'", ".">>) /\ inner[n] = "'"
        THEN Val(Some(NamePattern(SubSeq(inner, 2, n - 1), "extension")))
        ELSE IF n >= 2 /\ inner[1] = "/" /\ inner[n] = "/"
        THEN Val(Some(NamePattern(SubSeq(inner, 2, n - 1), "regex")))
        ELSE IF n >= 2 /\ inner[1] = "'" /\ inner[n] = "'"
        THEN Val(Some(NamePattern(SubSeq(inner, 2, n - 1), "name")))
        ELSE CHOOSE out \in
            {IF sz # None
             THEN CHOOSE leaf \in
                    {RangeLeaf(sz[1], lo, hi, "size") :
                     lo \in {Bound(sz[1].l, parse_size(sz[1].l))},
                     hi \in {Bound(sz[1].h, parse_size(sz[1].h))}} : TRUE
             ELSE CHOOSE out2 \in
                {IF tm # None
                 THEN CHOOSE leaf \in
                        {RangeLeaf(tm[1], lo, hi, "date") :
                         lo \in {Bound(tm[1].l, IF tm[1].l = None THEN Raise("AttributeError")
                                                ELSE parse_time(tm[1].l[1]))},
                         hi \in {Bound(tm[1].h, IF tm[1].h = None THEN Raise("AttributeError")
                                                ELSE parse_time(tm[1].h[1]))}} : TRUE
                 ELSE Val(None) :
                 tm \in {RangeMatch(TIME_RE_STR, inner)}} : TRUE :
             sz \in {RangeMatch(SIZE_RE_STR, Upper(inner))}} : TRUE

\* The loop over the characters of a nested pattern: the texts between the
\* & and | found at depth 0, and the merge mode ("" for None), or ValueError
\* when both & and | are found.
RECURSIVE SplitAt(_, _, _, _, _, _)
SplitAt(s, idx, depth, startidx, mergemode, subs) ==
    IF idx > Len(s)
    THEN Val([subs |-> Append(subs, Strip(SubSeq(s, startidx, Len(s)))),
              mergemode |-> mergemode])
    ELSE IF s[idx] = "(" THEN SplitAt(s, idx + 1, depth + 1, startidx, mergemode, subs)
    ELSE IF s[idx] = ")" THEN SplitAt(s, idx + 1, depth - 1, startidx, mergemode, subs)
    ELSE IF depth = 0 /\ s[idx] \in {"&", "|"}
    THEN IF mergemode = "" \/ mergemode = s[idx]
         THEN SplitAt(s, idx + 1, depth, idx + 1, s[idx],
                      Append(subs, Strip(SubSeq(s, startidx, idx - 1))))
         ELSE Raise("ValueError")
    ELSE SplitAt(s, idx + 1, depth, startidx, mergemode, subs)

\* _parse_pattern_fromstr: the pattern (None when the text is skipped), or
\* the exception raised
RECURSIVE _parse_pattern_fromstr(_)
_parse_pattern_fromstr(pattern_str) ==
    LET s == Strip(pattern_str)
    IN  IF StartsWith(s, <<"[">>) /\ EndsWith(s, <<"]">>)
        THEN ParseLeaf(Strip(SubSeq(s, 2, Len(s) - 1)))
        ELSE
        LET inverted == StartsWith(s, <<"!">>)
            body == IF inverted THEN Strip(Tail(s)) ELSE s
        IN  IF ~(StartsWith(body, <<"(">>) /\ EndsWith(body, <<")">>))
            THEN Raise("ValueError")
            ELSE CHOOSE out \in
                {IF split.exc # NoExc THEN split
                 ELSE CHOOSE out2 \in
                    {IF \E i \in 1..Len(parsed) : parsed[i].exc # NoExc
                     THEN parsed[CHOOSE i \in 1..Len(parsed) :
                            /\ parsed[i].exc # NoExc
                            /\ \A j \in 1..(i-1) : parsed[j].exc = NoExc]
                     ELSE Val(Some(Pattern(
                            [i \in 1..Len(SelectSeq(parsed, LAMBDA r : r.val # None)) |->
                                SelectSeq(parsed, LAMBDA r : r.val # None)[i].val[1]],
                            inverted,
                            IF split.val.mergemode \in {"", "&"} THEN "all" ELSE "any"))) :
                     parsed \in {[i \in 1..Len(split.val.subs) |->
                                    _parse_pattern_fromstr(split.val.subs[i])]}} : TRUE :
                 split \in {SplitAt(Strip(SubSeq(body, 2, Len(body) - 1)), 1, 0, 1, "", <<>>)}} : TRUE

\* ------------------------------------- SpecPat: patterns, texts and files

\* File timestamps are whole seconds 0..MaxAge; the clock reads MaxAge + 1.
MaxAge == 1

PatNow == (MaxAge + 1) * Tick

PatNames == {<<"x">>, <<"x", ".", "t">>, <<".", "x">>}
PatSizes == {2, 1024, 1025}

PatFiles ==
    {[FileInfo(<<"a", name>>, size, m * Tick, 1, 1, "h1", "p1")
        EXCEPT !.accessed = a * Tick, !.created = c * Tick] :
     name \in PatNames, size \in PatSizes, m \in 0..MaxAge, a \in 0..MaxAge, c \in 0..MaxAge}

NameLeaves ==
    {NamePattern(<<"x">>, "name"), NamePattern(<<".", "x">>, "name"),
     NamePattern(<<"*">>, "name"), NamePattern(<<".", "t">>, "extension"),
     NamePattern(<<"t">>, "extension"), NamePattern(<<"x">>, "regex")}

SizeBounds == {None, Some(2), Some(1025)}
SizeLeaves == {SizePattern(m, M) : m \in SizeBounds, M \in SizeBounds}

DateBounds == {None} \cup {Some(k * Tick) : k \in 1..(MaxAge + 1)}
DateLeaves ==
    {DatePattern(m, M, type) :
        m \in DateBounds, M \in DateBounds, type \in {"modified", "accessed", "created"}}

\* The members of the composite patterns
Members ==
    {NamePattern(<<"x">>, "name"), SizePattern(Some(2), Some(1025)),
     SizePattern(None, None), DatePattern(Some(Tick), Some(2 * Tick), "modified")}

Not(x) == Pattern(<<x>>, TRUE, "all")

Composites ==
    {Pattern(<<>>, inverted, mergemode) : inverted \in BOOLEAN, mergemode \in {"all", "any"}}
    \cup {Pattern(<<x>>, inverted, mergemode) :
            x \in Members, inverted \in BOOLEAN, mergemode \in {"all", "any"}}
    \cup {Pattern(<<x, y>>, inverted, mergemode) :
            x \in Members, y \in Members, inverted \in BOOLEAN, mergemode \in {"all", "any"}}
    \cup {Pattern(<<Not(x), Not(y)>>, FALSE, "any") : x \in Members, y \in Members}

PatPatterns == NameLeaves \cup SizeLeaves \cup DateLeaves \cup Composites

\* Operands of a range leaf: sizes with a unit, durations
SizeOperands == {<<"2", "B">>, <<"1", "K", "B">>, <<"1", "k", "B">>, <<"5", "M">>}
TimeOperands == {<<"1", "s">>, <<"5", "m">>, <<"1", "d">>, <<"1", "m", "o">>}

\* The range leaves with one or two operands of one kind
PatRanges ==
    {[kind |-> kind, lo |-> lo, hi |-> hi] :
        kind \in {"size"}, lo \in SizeOperands \cup {<<>>}, hi \in SizeOperands \cup {<<>>}}
    \cup {[kind |-> kind, lo |-> lo, hi |-> hi] :
        kind \in {"time"}, lo \in TimeOperands \cup {<<>>}, hi \in TimeOperands \cup {<<>>}}

RangeOf(range) == <<"[">> \o range.lo \o <<".", ".">> \o range.hi \o <<"]">>

NoText == Raise("unset")

\* p: a pattern object, or None when the text comes from a config string;
\* range: the operands of that text; text: repr(p) or the config string;
\* parsed: what _parse_pattern_fromstr made of the text; matched: the last
\* file matched against p and against the parsed pattern.
InitPat ==
    /\ db = "unused"
    /\ last = "unused"
    /\ config = "unused"
    /\ scan = "unused"
    /\ deq = "unused"
    /\ exe = "unused"
    /\ clients = "unused"
    /\ cache = "unused"
    /\ run = "unused"
    /\ tree = "unused"
    /\ locks = "unused"
    /\ \/ \E p \in PatPatterns :
            pat = [pc |-> "repr", p |-> Some(p), range |-> None, text |-> NoText,
                   parsed |-> NoText, matched |-> None]
       \/ \E range \in PatRanges :
            pat = [pc |-> "parse", p |-> None, range |-> Some(range),
                   text |-> Val(RangeOf(range)), parsed |-> NoText, matched |-> None]

\* repr(p)
PatRepr ==
    /\ pat.pc = "repr"
    /\ pat' = [pat EXCEPT !.pc = "parse", !.text = Repr(pat.p[1])]
    /\ UNCHANGED <<db, last, config, scan, deq, exe, clients, cache, run, tree, locks>>

\* _parse_pattern_fromstr(text)
PatParse ==
    /\ pat.pc = "parse"
    /\ pat.text.exc = NoExc
    /\ pat' = [pat EXCEPT !.pc = "match", !.parsed = _parse_pattern_fromstr(pat.text.val)]
    /\ UNCHANGED <<db, last, config, scan, deq, exe, clients, cache, run, tree, locks>>

\* p.match(file) and, when the text gave a pattern, its match(file)
PatMatch ==
    /\ pat.pc = "match"
    /\ \E file \in PatFiles :
        pat' = [pat EXCEPT !.pc = "done", !.matched = Some(
                    [file |-> file, now |-> PatNow,
                     by_p |-> IF pat.p = None THEN None
                              ELSE Some(MatchAt(pat.p[1], file, PatNow)),
                     by_parsed |-> IF pat.parsed.exc # NoExc \/ pat.parsed.val = None
                                   THEN None
                                   ELSE Some(MatchAt(pat.parsed.val[1], file, PatNow))])]
    /\ UNCHANGED <<db, last, config, scan, deq, exe, clients, cache, run, tree, locks>>

NextPat == PatRepr \/ PatParse \/ PatMatch

SpecPat == InitPat /\ [][NextPat]_vars

\* ------- SpecTree: load_config, iterate_files, _get_directory_config_for_path

\* An integer "subdirs" of the configuration file is at most MaxDepth.
MaxDepth == 2
\* The configuration file lists at most MaxDirs directories.
MaxDirs == 2

\* A scalar of the configuration file: absent, a bool or an int.
Absent == [tag |-> "absent", b |-> FALSE, n |-> 0]
YBool(b) == [tag |-> "bool", b |-> b, n |-> 0]
YInt(n) == [tag |-> "int", b |-> FALSE, n |-> n]

\* d.get(key, default)
GetOr(v, default) == IF v.tag = "absent" THEN default ELSE v

\* bool(v): an int is true unless it is 0
PyBool(v) == IF v.tag = "bool" THEN v.b ELSE v.n # 0

\* load_config: the DirectoryConfig of one entry of 'directories', or the
\* exception _parse_pattern_fromstr raised on its pattern.
LoadDir(d) ==
    CHOOSE out \in
        {IF parsed.exc # NoExc THEN Raise(parsed.exc)
         ELSE Val(DirectoryConfig(d.path, d.priority, d.policy, FALSE, parsed.val)
                  @@ [include_subdirs |-> YBool(PyBool(GetOr(d.subdirs, YBool(TRUE)))),
                      skip_subdirs |-> d.skip_subdirs,
                      hidden |-> PyBool(GetOr(d.hidden, YBool(FALSE)))]) :
         parsed \in {IF d.pattern = None THEN Val(None)
                     ELSE _parse_pattern_fromstr(d.pattern[1])}} : TRUE

\* load_config: config.dirs, or the first exception raised.
RECURSIVE load_config(_)
load_config(dicts) ==
    IF dicts = <<>> THEN Val(<<>>)
    ELSE CHOOSE out \in
            {IF first.exc # NoExc THEN first
             ELSE IF rest.exc # NoExc THEN rest
             ELSE Val(<<first.val>> \o rest.val) :
             first \in {LoadDir(Head(dicts))}, rest \in {load_config(Tail(dicts))}} : TRUE

\* iterate_files: the cap on the depth when include_subdirs is True
Unlimited == 4096

\* iterate_files: include_subdirs as a depth
SubdirDepth(include_subdirs) ==
    IF include_subdirs.tag = "bool"
    THEN IF include_subdirs.b THEN Unlimited ELSE 0
    ELSE include_subdirs.n

\* The names of the tree that start with '.'.
DotNames == {".h"}

\* _is_hidden, the attribute FILE_ATTRIBUTE_HIDDEN being clear
_is_hidden(path) == path[Len(path)] \in DotNames

\* directory.iterdir(): the entries of the directory in the order in which
\* the disk lists them.
Entries(disk, directory) ==
    DictKeys([k \in 1..Len(SelectSeq(disk, LAMBDA f :
                    IsRelativeTo(f.path, directory) /\ Len(f.path) > Len(directory))) |->
                SubSeq(SelectSeq(disk, LAMBDA f :
                    IsRelativeTo(f.path, directory) /\ Len(f.path) > Len(directory))[k].path,
                       1, Len(directory) + 1)])

\* entry.is_file()
IsFile(disk, entry) == \E k \in 1..Len(disk) : disk[k].path = entry

\* _iterate_dir: the paths it yields, in order. OverEntries is its loop over
\* the entries that iterdir() has left.
RECURSIVE _iterate_dir(_, _, _, _, _)
RECURSIVE OverEntries(_, _, _, _, _)
OverEntries(entries, current_depth, subdir_depth, dir_config, disk) ==
    IF entries = <<>> THEN <<>>
    ELSE (IF IsFile(disk, Head(entries))
          THEN IF ~dir_config.hidden /\ _is_hidden(Head(entries)) THEN <<>>
               ELSE <<Head(entries)>>
          ELSE IF current_depth < subdir_depth
                  /\ Head(entries)[Len(Head(entries))] \notin SeqElems(dir_config.skip_subdirs)
                  /\ ~(~dir_config.hidden /\ _is_hidden(Head(entries)))
               THEN _iterate_dir(Head(entries), current_depth + 1, subdir_depth,
                                 dir_config, disk)
               ELSE <<>>)
         \o OverEntries(Tail(entries), current_depth, subdir_depth, dir_config, disk)

_iterate_dir(directory, current_depth, subdir_depth, dir_config, disk) ==
    OverEntries(Entries(disk, directory), current_depth, subdir_depth, dir_config, disk)

\* iterate_files: for each configured directory, the paths _iterate_dir
\* yields for it.
IterateFiles(dirs, disk) ==
    [k \in 1..Len(dirs) |->
        _iterate_dir(dirs[k].path, 0, SubdirDepth(dirs[k].include_subdirs), dirs[k], disk)]

\* The tree: files of directory a at every depth down to three levels below
\* it, one of them with a name that starts with '.', and a file of b.
TreeDisk ==
    <<DiskFile(<<"a", "s", "y">>, 2, 1, 1, "h1", "p1", "none"),
      DiskFile(<<"a", "x">>, 1, 1, 2, "h1", "p1", "none"),
      DiskFile(<<"a", "s", "t", "u", "v">>, 2, 1, 3, "h1", "p1", "none"),
      DiskFile(<<"a", ".h">>, 2, 1, 4, "h1", "p1", "none"),
      DiskFile(<<"a", "s", "t", "z">>, 1, 1, 5, "h1", "p1", "none"),
      DiskFile(PZ, 1, 1, 6, "h1", "p1", "none")>>

\* The pattern '[2B..9B]' of a directory.
TwoToNine == <<"[", "2", "B", ".", ".", "9", "B", "]">>

\* Entries of 'directories' that differ in what decides the config of a file.
TreeDicts ==
    [path : {<<"a">>, <<"a", "s">>}, priority : {0, 1}, policy : {"KEEP", "DELETE"},
     pattern : {None, Some(TwoToNine)}, subdirs : {Absent}, hidden : {Absent},
     skip_subdirs : {<<>>}]

\* Entries of 'directories' that differ in what decides the enumeration.
TreeDepths ==
    [path : {<<"a">>}, priority : {0}, policy : {"KEEP"}, pattern : {None},
     subdirs : {Absent, YBool(TRUE), YBool(FALSE)} \cup {YInt(n) : n \in 0..MaxDepth},
     hidden : {Absent, YBool(TRUE)}, skip_subdirs : {<<>>, <<"t">>}]

TreeYamls ==
    {<<d>> : d \in TreeDicts \cup TreeDepths}
    \cup UNION {[1..n -> TreeDicts] : n \in 2..MaxDirs}

\* yaml: the 'directories' of the configuration file; dirs: config.dirs once
\* loaded; listed: for each directory the paths iterate_files yielded for it;
\* file and chosen: a file and what _get_directory_config_for_path returned.
InitTree ==
    /\ db = "unused"
    /\ last = "unused"
    /\ config = "unused"
    /\ scan = "unused"
    /\ deq = "unused"
    /\ exe = "unused"
    /\ clients = "unused"
    /\ cache = "unused"
    /\ run = "unused"
    /\ pat = "unused"
    /\ locks = "unused"
    /\ \E yaml \in TreeYamls :
        tree = [pc |-> "load", yaml |-> yaml, disk |-> TreeDisk, dirs |-> <<>>,
                listed |-> <<>>, file |-> None, chosen |-> None]

\* load_config
TreeLoad ==
    /\ tree.pc = "load"
    /\ \E r \in {load_config(tree.yaml)} :
        tree' = IF r.exc # NoExc THEN [tree EXCEPT !.pc = "failed"]
                ELSE [tree EXCEPT !.pc = "iterate", !.dirs = r.val]
    /\ UNCHANGED <<db, last, config, scan, deq, exe, clients, cache, run, pat, locks>>

\* iterate_files, consumed to its end
TreeIterate ==
    /\ tree.pc = "iterate"
    /\ tree' = [tree EXCEPT !.pc = "choose", !.listed = IterateFiles(tree.dirs, tree.disk)]
    /\ UNCHANGED <<db, last, config, scan, deq, exe, clients, cache, run, pat, locks>>

\* _get_directory_config_for_path for a file of the disk
TreeChoose ==
    /\ tree.pc = "choose"
    /\ \E k \in 1..Len(tree.disk) :
       \E info \in {read_file_info(tree.disk[k]).val} :
        tree' = [tree EXCEPT !.pc = "done", !.file = Some(info),
                     !.chosen = Some(_get_directory_config_for_path(info, tree.dirs))]
    /\ UNCHANGED <<db, last, config, scan, deq, exe, clients, cache, run, pat, locks>>

NextTree == TreeLoad \/ TreeIterate \/ TreeChoose

SpecTree == InitTree /\ [][NextTree]_vars

\* ------------------- SpecLock: the locks of update_db, check_db, act_decisions

\* threading.Lock: the thread that holds it, or None. The main thread is
\* MainThread, the workers are 1..max_threads.
MainThread == 0
Unlocked == [it |-> None, set |-> None, db |-> None]

\* with self._lock: __enter__ acquires, for the thread w
Acquire(holder, l, w) == [holder EXCEPT ![l] = Some(w)]

\* __exit__ as it would be if it released only when the block returned
ReleaseOnReturn(holder, l, exc) ==
    IF exc = NoExc THEN [holder EXCEPT ![l] = None] ELSE holder

\* with self._lock: __exit__ releases, whether the block returned or raised
Release(holder, l, exc) == [holder EXCEPT ![l] = None]

\* The lock each position of a thread is about to take: ThreadSafeIterator
\* ._lock (it), ThreadSafeSet._lock (set), StatDB._lock (db).
LockOf(pc) ==
    IF pc = "next" THEN "it"
    ELSE IF pc \in {"contains", "add"} THEN "set"
    ELSE "db"

\* The tables a call of the StatDB touches.
AllTables == {"file_info", "path_index", "dvin_index", "hash_index", "f16b_index"}

\* A worker: pc its position in _add_new_files_th, in whether it is inside
\* the with block of that position, path the path of the candidate it holds.
Worker(pc, in, path, exc) == [pc |-> pc, in |-> in, path |-> path, exc |-> exc]

\* A worker at the head of its for loop, holding no candidate.
AtLoop == Worker("next", FALSE, 0, NoExc)

\* The worker w after a step that leaves it at position pc: continue takes
\* it back to the head of the loop.
Goes(w, pc) == IF pc = "next" THEN AtLoop ELSE [w EXCEPT !.pc = pc, !.in = FALSE]

\* A thread has ended when its target returned or raised.
Ended(th) == \A t \in DOMAIN th : th[t].pc \in {"done", "dead"}

\* for t in threads: pass, as _add_new_files would be without the joins
NotJoined == TRUE

\* for t in threads: t.join()
Joined == Ended(locks.th)

\* The generator of iterate_files after a yield, were it to stay where it was
Repeat(left) == left

\* The generator of iterate_files after a yield: one candidate less
Advance(left) == left - 1

\* The accesses to the tables made by a piece of code running in thread w:
\* whether w holds the lock of the StatDB, and whether every worker has
\* ended by then.
Access(by, tables, w) ==
    {[by |-> by, table |-> x, locked |-> locks.holder.db = Some(w),
      alone |-> Ended(locks.th)] :
        x \in tables}

InitLock ==
    /\ db = "unused"
    /\ last = "unused"
    /\ config = "unused"
    /\ scan = "unused"
    /\ deq = "unused"
    /\ exe = "unused"
    /\ clients = "unused"
    /\ cache = "unused"
    /\ run = "unused"
    /\ pat = "unused"
    /\ tree = "unused"
    /\ \E n \in 1..MaxThreads, total \in 0..MaxFiles :
        locks = [main |-> [pc |-> "join", in |-> FALSE], holder |-> Unlocked,
                 th |-> [t \in 1..n |-> AtLoop],
                 total |-> total, left |-> total, yielded |-> 0,
                 handed |-> [k \in 1..total |-> 0],
                 checked |-> {}, acc |-> {}]

Others == <<db, last, config, scan, deq, exe, clients, cache, run, pat, tree>>

\* A worker enters the with block of its position: Lock.acquire blocks
\* while the lock is held, by any thread.
WkAcquire(t) ==
    /\ locks.th[t].pc \in {"next", "contains", "add", "bypath", "bydvin", "submit"}
    /\ ~locks.th[t].in
    /\ locks.holder[LockOf(locks.th[t].pc)] = None
    /\ locks' = [locks EXCEPT !.holder = Acquire(@, LockOf(locks.th[t].pc), t),
                              !.th[t].in = TRUE]
    /\ UNCHANGED Others

\* ThreadSafeIterator.__next__: return next(self.iterable). StopIteration
\* ends the for loop; an exception of the generator (a stat that fails)
\* ends the generator and the worker. The candidate is the k-th the
\* generator yields; its path is a new one, or the first path again when
\* directories overlap. Then the global pattern matches it or not.
WkNext(t) ==
    /\ locks.th[t].pc = "next" /\ locks.th[t].in
    /\ IF locks.left = 0
       THEN locks' = [locks EXCEPT !.holder = Release(@, "it", "StopIteration"),
                                   !.th[t] = Worker("done", FALSE, 0, NoExc)]
       ELSE \E k \in {locks.total - locks.left + 1} :
            /\ locks.handed[k] < MaxThreads
            /\ \/ locks' = [locks EXCEPT !.holder = Release(@, "it", "PermissionError"),
                                         !.left = 0,
                                         !.th[t] = Worker("dead", FALSE, 0, "PermissionError")]
               \/ \E path \in {1, k}, match \in BOOLEAN :
                    locks' = [locks EXCEPT !.holder = Release(@, "it", NoExc),
                                           !.left = Advance(@),
                                           !.yielded = @ + 1,
                                           !.handed[k] = @ + 1,
                                           !.th[t] = Goes(Worker("next", FALSE, path, NoExc),
                                                          IF match THEN "contains" ELSE "next")]
    /\ UNCHANGED Others

\* ThreadSafeSet.__contains__, then _get_directory_config_for_path, which
\* finds a config or none.
WkContains(t) ==
    /\ locks.th[t].pc = "contains" /\ locks.th[t].in
    /\ \E found \in {locks.th[t].path \in locks.checked}, _dircfg \in BOOLEAN :
        locks' = [locks EXCEPT !.holder = Release(@, "set", NoExc),
                               !.th[t] = Goes(@, IF found \/ ~_dircfg THEN "next" ELSE "add")]
    /\ UNCHANGED Others

\* ThreadSafeSet.add
WkAdd(t) ==
    /\ locks.th[t].pc = "add" /\ locks.th[t].in
    /\ locks' = [locks EXCEPT !.holder = Release(@, "set", NoExc),
                              !.checked = @ \cup {locks.th[t].path},
                              !.th[t] = Goes(@, "bypath")]
    /\ UNCHANGED Others

\* db.get_item(path=...)
WkGetByPath(t) ==
    /\ locks.th[t].pc = "bypath" /\ locks.th[t].in
    /\ locks' = [locks EXCEPT !.acc = @ \cup Access("worker", {"path_index", "file_info"}, t),
                              !.holder = Release(@, "db", NoExc),
                              !.th[t] = Goes(@, "bydvin")]
    /\ UNCHANGED Others

\* db.get_item(device_inode=...), then the match statement up to the call
\* of the StatDB: a file the index knows, and one that cannot be read, take
\* the next candidate; the others are submitted.
WkGetByDvin(t) ==
    /\ locks.th[t].pc = "bydvin" /\ locks.th[t].in
    /\ \E action \in {"none", "add"} :
        locks' = [locks EXCEPT !.acc = @ \cup Access("worker", {"dvin_index", "file_info"}, t),
                               !.holder = Release(@, "db", NoExc),
                               !.th[t] = Goes(@, IF action = "none" THEN "next" ELSE "submit")]
    /\ UNCHANGED Others

\* db.add_item(item) returns or raises: an exception leaves the with block
\* and ends the worker.
WkSubmit(t) ==
    /\ locks.th[t].pc = "submit" /\ locks.th[t].in
    /\ \E exc \in {NoExc, BagSetItemExc} :
        locks' = [locks EXCEPT !.acc = @ \cup Access("worker", AllTables, t),
                               !.holder = Release(@, "db", exc),
                               !.th[t] = IF exc = NoExc THEN AtLoop
                                         ELSE Worker("dead", FALSE, 0, exc)]
    /\ UNCHANGED Others

\* _add_new_files has joined the workers and returns; _check_stale_files
\* reads db.path_index.keys() and finds stale paths or none.
MainSweep ==
    /\ locks.main.pc = "join"
    /\ Joined
    /\ \E stale \in BOOLEAN :
        locks' = [locks EXCEPT !.acc = @ \cup Access("sweep", {"path_index"}, MainThread),
                               !.main.pc = IF stale THEN "pop" ELSE "len"]
    /\ UNCHANGED Others

\* The main thread enters a method of the StatDB.
MainAcquire ==
    /\ locks.main.pc \in {"pop", "len", "get", "act", "save"}
    /\ ~locks.main.in
    /\ locks.holder.db = None
    /\ locks' = [locks EXCEPT !.holder = Acquire(@, "db", MainThread), !.main.in = TRUE]
    /\ UNCHANGED Others

\* db.pop_item(path=stale_path): an exception leaves update_db and main.
MainPop ==
    /\ locks.main.pc = "pop" /\ locks.main.in
    /\ \E exc \in {NoExc, "KeyError"} :
        locks' = [locks EXCEPT !.acc = @ \cup Access("sweep", AllTables, MainThread),
                               !.holder = Release(@, "db", exc),
                               !.main = [pc |-> IF exc = NoExc THEN "len" ELSE "save",
                                         in |-> FALSE]]
    /\ UNCHANGED Others

\* len(db), at the end of update_db
MainLen ==
    /\ locks.main.pc = "len" /\ locks.main.in
    /\ locks' = [locks EXCEPT !.acc = @ \cup Access("update_db", {"file_info"}, MainThread),
                              !.holder = Release(@, "db", NoExc),
                              !.main = [pc |-> "groups", in |-> FALSE]]
    /\ UNCHANGED Others

\* check_db: for _, idxs in db.hash_index.groups(), over groups or none
MainGroups ==
    /\ locks.main.pc = "groups"
    /\ \E some \in BOOLEAN :
        locks' = [locks EXCEPT !.acc = @ \cup Access("check_db", {"hash_index"}, MainThread),
                               !.main.pc = IF some THEN "get" ELSE "save"]
    /\ UNCHANGED Others

\* check_db: db.get_item(index=idx); the group is decided, or check_db raises.
MainGet ==
    /\ locks.main.pc = "get" /\ locks.main.in
    /\ \E next \in {"act", "save"} :
        locks' = [locks EXCEPT !.acc = @ \cup Access("check_db", {"file_info"}, MainThread),
                               !.holder = Release(@, "db", NoExc),
                               !.main = [pc |-> next, in |-> FALSE]]
    /\ UNCHANGED Others

\* act_decisions: db.pop_item(index=decision.file_index)
MainAct ==
    /\ locks.main.pc = "act" /\ locks.main.in
    /\ \E exc \in {NoExc, "KeyError"} :
        locks' = [locks EXCEPT !.acc = @ \cup Access("act_decisions", AllTables, MainThread),
                               !.holder = Release(@, "db", exc),
                               !.main = [pc |-> "save", in |-> FALSE]]
    /\ UNCHANGED Others

\* run(): finally db.save()
MainSave ==
    /\ locks.main.pc = "save" /\ locks.main.in
    /\ locks' = [locks EXCEPT !.acc = @ \cup Access("save", {"file_info"}, MainThread),
                              !.holder = Release(@, "db", NoExc),
                              !.main = [pc |-> "exit", in |-> FALSE]]
    /\ UNCHANGED Others

\* The steps of worker t, for the scheduler.
WkStep(t) ==
    /\ t \in DOMAIN locks.th
    /\ \/ WkAcquire(t)
       \/ WkNext(t)
       \/ WkContains(t)
       \/ WkAdd(t)
       \/ WkGetByPath(t)
       \/ WkGetByDvin(t)
       \/ WkSubmit(t)

MainStep ==
    \/ MainSweep
    \/ MainAcquire
    \/ MainPop
    \/ MainLen
    \/ MainGroups
    \/ MainGet
    \/ MainAct
    \/ MainSave

NextLock ==
    \/ MainStep
    \/ \E t \in DOMAIN locks.th : WkAcquire(t)
    \/ \E t \in DOMAIN locks.th : WkNext(t)
    \/ \E t \in DOMAIN locks.th : WkContains(t)
    \/ \E t \in DOMAIN locks.th : WkAdd(t)
    \/ \E t \in DOMAIN locks.th : WkGetByPath(t)
    \/ \E t \in DOMAIN locks.th : WkGetByDvin(t)
    \/ \E t \in DOMAIN locks.th : WkSubmit(t)

SpecLock == InitLock /\ [][NextLock]_vars

\* The scheduler runs every thread that can take a step.
SpecLockFair ==
    /\ SpecLock
    /\ WF_vars(MainStep)
    /\ \A t \in 1..MaxThreads : WF_vars(WkStep(t))

\* ------------------------------------------------------ claims on the StatDB

\* C1: after any sequence of add_item, update_item and pop_item calls the
\* tables agree: every record of file_info is found under its path, its
\* (device, inode), its file_hash and its first_16b, and every index number
\* stored in a secondary table refers to a record of file_info whose field
\* equals the key.
C1_TablesAgree ==
    /\ \A i \in DOMAIN db.file_info :
        LET f == db.file_info[i] IN
        /\ f.path \in DOMAIN db.path_index /\ db.path_index[f.path] = i
        /\ <<f.device, f.inode>> \in DOMAIN db.dvin_index
        /\ db.dvin_index[<<f.device, f.inode>>] = i
        /\ f.file_hash \in DOMAIN db.hash_index
        /\ i \in SeqElems(db.hash_index[f.file_hash])
        /\ f.first_16b \in DOMAIN db.f16b_index
        /\ i \in SeqElems(db.f16b_index[f.first_16b])
    /\ \A p \in DOMAIN db.path_index :
        /\ db.path_index[p] \in DOMAIN db.file_info
        /\ db.file_info[db.path_index[p]].path = p
    /\ \A k \in DOMAIN db.dvin_index :
        /\ db.dvin_index[k] \in DOMAIN db.file_info
        /\ LET f == db.file_info[db.dvin_index[k]] IN <<f.device, f.inode>> = k
    /\ \A h \in DOMAIN db.hash_index : \A i \in SeqElems(db.hash_index[h]) :
        i \in DOMAIN db.file_info /\ db.file_info[i].file_hash = h
    /\ \A h \in DOMAIN db.f16b_index : \A i \in SeqElems(db.f16b_index[h]) :
        i \in DOMAIN db.file_info /\ db.file_info[i].first_16b = h

\* C10: add_item(info) with info.path absent from the index inserts the
\* record and returns an index number never used before, after which
\* get_item by that path returns info; with info.path present it raises
\* ItemExistsError.
C10_AddItemContract ==
    [][last'.op = "add_item" =>
        IF last'.info.path \in DOMAIN db.path_index
        THEN last'.exc = "ItemExistsError"
        ELSE /\ last'.exc = NoExc
             /\ last'.idx > db.index
             /\ get_item_path(db', last'.info.path) = << <<last'.idx, last'.info>> >>]_vars

\* The index number i is listed under key k of a Bag.
Listed(bag, k, i) == k \in DOMAIN bag /\ i \in SeqElems(bag[k])

\* The five tables of the database.
Tables(d) == <<d.file_info, d.path_index, d.dvin_index, d.hash_index, d.f16b_index>>

\* C11: a successful update_item(info, index) replaces the record at that
\* index with info, the path stored there staying the same; the index number
\* is then listed under info.file_hash and info.first_16b and no longer
\* under the old hash or prefix when they differ. A call whose info.path
\* differs from the path stored at the given index fails with
\* ItemNotFoundError or InvalidItemError and changes no record.
C11_UpdateItemContract ==
    [][last'.op = "update_item" =>
        /\ last'.exc = NoExc =>
            /\ last'.index # 0 => last'.idx = last'.index
            /\ last'.idx \in DOMAIN db.file_info
            /\ db.file_info[last'.idx].path = last'.info.path
            /\ db'.file_info = [db.file_info EXCEPT ![last'.idx] = last'.info]
            /\ db'.path_index = db.path_index
            /\ Listed(db'.hash_index, last'.info.file_hash, last'.idx)
            /\ Listed(db'.f16b_index, last'.info.first_16b, last'.idx)
            /\ db.file_info[last'.idx].file_hash # last'.info.file_hash =>
                    ~Listed(db'.hash_index, db.file_info[last'.idx].file_hash, last'.idx)
            /\ db.file_info[last'.idx].first_16b # last'.info.first_16b =>
                    ~Listed(db'.f16b_index, db.file_info[last'.idx].first_16b, last'.idx)
        /\ (/\ last'.index \in DOMAIN db.file_info
            /\ db.file_info[last'.index].path # last'.info.path) =>
                /\ last'.exc \in {"ItemNotFoundError", "InvalidItemError"}
                /\ Tables(db') = Tables(db)]_vars

\* update_item by index has replaced the record 1 while record 2, of the
\* other hash and prefix, is in the index; the old hash of record 1 is no
\* longer a key.
C11_Witness ==
    /\ last.op = "update_item" /\ last.exc = NoExc /\ last.index = 1
    /\ {1, 2} \subseteq DOMAIN db.file_info
    /\ db.file_info[1] = last.info
    /\ db.file_info[2].file_hash # last.info.file_hash
    /\ Listed(db.hash_index, last.info.file_hash, 1)
    /\ Listed(db.hash_index, db.file_info[2].file_hash, 2)
    /\ ~Listed(db.hash_index, db.file_info[2].file_hash, 1)

\* The index numbers of the records a pop_item call designates: by index,
\* by path or by (device, inode), as the fields of the key passed tell.
Designated(d, call) ==
    {i \in DOMAIN d.file_info :
        CASE call.op = "pop_item_index" -> i = call.index
          [] call.op = "pop_item_path" -> d.file_info[i].path = call.info.path
          [] call.op = "pop_item_dvin" ->
                /\ d.file_info[i].device = call.info.device
                /\ d.file_info[i].inode = call.info.inode
          [] OTHER -> FALSE}

\* No table of d holds the record f of index number i.
Removed(d, i, f) ==
    /\ i \notin DOMAIN d.file_info
    /\ f.path \notin DOMAIN d.path_index
    /\ <<f.device, f.inode>> \notin DOMAIN d.dvin_index
    /\ ~Listed(d.hash_index, f.file_hash, i)
    /\ ~Listed(d.f16b_index, f.first_16b, i)

\* C12: pop_item by index, by path or by device_inode removes the record
\* and all its secondary-index entries when the key is present, and raises
\* ItemNotFoundError when the key is absent, for each of the three kinds of
\* key.
C12_PopItemContract ==
    [][last'.op \in {"pop_item_index", "pop_item_path", "pop_item_dvin"} =>
        IF Designated(db, last') = {}
        THEN last'.exc = "ItemNotFoundError" /\ Tables(db') = Tables(db)
        ELSE /\ last'.exc = NoExc
             /\ \A i \in Designated(db, last') : Removed(db', i, db.file_info[i])]_vars

\* C13: after any sequence of add_item, update_item and pop_item calls no
\* two records of the primary table have the same (device, inode) pair.
C13_DvinUnique ==
    \A i, j \in DOMAIN db.file_info :
        (/\ db.file_info[i].device = db.file_info[j].device
         /\ db.file_info[i].inode = db.file_info[j].inode) => i = j

\* C14: for concurrent callers that issue add_item, pop_item and update_item
\* on pairwise disjoint paths, every interleaving of the calls ends with the
\* same multiset of records in the index: that of the callers running one
\* after the other.
C14_InterleavingIndependent ==
    (\A c \in 1..Len(ConcPaths) : clients.left[c] = <<>>) =>
        Records(db) = Records(Serial(LoadedDb, clients.program[1] \o clients.program[2]))

\* Both callers have made MaxCalls calls, the second caller's record was
\* added first, and both records are in the index.
C14_Witness ==
    /\ \A c \in 1..Len(ConcPaths) :
            clients.left[c] = <<>> /\ Len(clients.program[c]) = MaxCalls
    /\ clients.program[1][1].op = "add_item"
    /\ clients.program[1][2].op = "update_item"
    /\ DOMAIN db.file_info = {1, 2}
    /\ db.file_info[1].path = PY
    /\ db.file_info[2] = clients.program[1][2].info
    /\ clients.program[1][2].info # clients.program[1][1].info

\* The multiset of the records of a list.
RecordsOf(list) ==
    [r \in SeqElems(list) |-> Cardinality({k \in 1..Len(list) : list[k] = r})]

\* C15: for every index content whose records have non-negative integer
\* size, timestamps, inode and device, saving the snapshot and loading it
\* into a fresh StatDB yields the same multiset of records, each with
\* identical path, size, modified, accessed, created, inode, device,
\* file_hash and first_16b.
C15_SnapshotRoundTrip ==
    [][(last'.op = "load" /\ cache.loaded = "no" /\ cache.saved # None) =>
        /\ last'.exc = NoExc
        /\ Records(db') = RecordsOf(cache.saved[1])]_vars

\* The snapshot file holds exactly the records of the database d.
Holds(file, d) ==
    /\ file # None
    /\ Len(file[1]) = Cardinality(DOMAIN d.file_info)
    /\ \A i \in DOMAIN d.file_info :
            \E k \in 1..Len(file[1]) : _de_fileinfo(file[1][k]).path = d.file_info[i].path
                                      /\ file[1][k] = _ser_fileinfo(d.file_info[i])

C17_SavedOnEveryExit ==
    (run.pc = "exit" /\ run.how \in {"none", "KeyboardInterrupt", "SystemExit"}) =>
        /\ run.save_exc = NoExc
        /\ \A i \in DOMAIN db.file_info :
            /\ cache.file # None
            /\ _ser_fileinfo(db.file_info[i]) \in SeqElems(cache.file[1])

\* ----------------------------------------------------- claims on patterns

\* The timestamp of the file that the kind of a DatePattern names
Stamp(file, type) ==
    CASE type = "accessed" -> file.accessed
      [] type = "created" -> file.created
      [] OTHER -> file.modified

\* age lies in the closed interval [min, max], an absent bound not limiting
InClosed(age, min, max) ==
    /\ (min # None => min[1] <= age)
    /\ (max # None => age <= max[1])

\* C21: DatePattern(min, max, kind).match compares the bounds with the
\* current time minus the timestamp named by kind (accessed, created or
\* modified), and matches exactly when that age lies in [min, max].
C21_DateMatchByKind ==
    (pat.matched # None /\ pat.p # None /\ pat.p[1].tag = "date") =>
        LET m == pat.matched[1]
            p == pat.p[1]
        IN  m.by_p = Some(InClosed(m.now - Stamp(m.file, p.type), p.min, p.max))

\* C22: for every pattern p built from NamePattern, SizePattern, DatePattern
\* and composite Pattern nodes, _parse_pattern_fromstr(repr(p)) succeeds and
\* returns a pattern that matches exactly the same files as p.
C22_ReprReparses ==
    (pat.p # None /\ pat.pc \in {"match", "done"}) =>
        /\ pat.parsed.exc = NoExc
        /\ pat.parsed.val # None
        /\ pat.matched # None => pat.matched[1].by_parsed = pat.matched[1].by_p

\* C23: _parse_pattern_fromstr accepts a range leaf with one bound omitted:
\* '[min..]' with a size operand yields SizePattern(min, None), '[..max]'
\* with a size operand yields SizePattern(None, max), and the same forms with
\* duration operands yield a DatePattern with the omitted bound absent.
C23_OpenRanges ==
    (pat.range # None /\ pat.pc \in {"match", "done"}) =>
        LET r == pat.range[1]
            size(text) == IF text = <<>> THEN None ELSE Some(parse_size(Some(text)).val)
            time(text) == IF text = <<>> THEN None ELSE Some(parse_time(text).val)
        IN  ((r.lo = <<>>) # (r.hi = <<>>)) =>
                pat.parsed =
                    IF r.kind = "size"
                    THEN Val(Some(SizePattern(size(r.lo), size(r.hi))))
                    ELSE Val(Some(DatePattern(time(r.lo), time(r.hi), "modified")))

\* p is not (x and y)
IsNand(p) == p.tag = "pattern" /\ Len(p.patterns) = 2 /\ p.inverted /\ p.mergemode = "all"

\* p is (not x) or (not y)
IsOrOfNots(p) ==
    /\ p.tag = "pattern" /\ Len(p.patterns) = 2 /\ ~p.inverted /\ p.mergemode = "any"
    /\ \A i \in 1..2 :
        /\ p.patterns[i].tag = "pattern" /\ Len(p.patterns[i].patterns) = 1
        /\ p.patterns[i] = Not(p.patterns[i].patterns[1])

\* C24: for all patterns p and q and every file, the inverted Pattern of p
\* and q with mergemode 'all' matches the file exactly when the Pattern of
\* not-p and not-q with mergemode 'any', not inverted, matches it, not-x
\* being the inverted Pattern of x alone with mergemode 'all'.
C24_DeMorgan ==
    (pat.matched # None /\ pat.p # None) =>
        LET m == pat.matched[1]
            p == pat.p[1]
        IN  /\ IsNand(p) =>
                m.by_p = Some(MatchAt(Pattern(<<Not(p.patterns[1]), Not(p.patterns[2])>>,
                                              FALSE, "any"), m.file, m.now))
            /\ IsOrOfNots(p) =>
                m.by_p = Some(MatchAt(Pattern(<<p.patterns[1].patterns[1],
                                                p.patterns[2].patterns[1]>>,
                                              TRUE, "all"), m.file, m.now))

\* not (x and y) matched a file that x matches and y does not
C24_Witness ==
    /\ pat.matched # None /\ pat.p # None /\ IsNand(pat.p[1])
    /\ pat.matched[1].by_p = Some(TRUE)
    /\ MatchAt(pat.p[1].patterns[1], pat.matched[1].file, pat.matched[1].now)
    /\ ~MatchAt(pat.p[1].patterns[2], pat.matched[1].file, pat.matched[1].now)

\* ------------------------------------------------------ claims on check_db

Queued == SeqElems(deq.queue)

\* The config check_db resolved for the file of a queued decision.
Cfg(d) == d.dircfg[1]

\* C2 (the case): check_db has run on a database in which a hash group holds
\* exactly the two files i and j, i under a config of policy KEEP and
\* priority 1, j under a config of policy DELETE and priority 0.
C2_Case(i, j) ==
    /\ deq.pc = "act_decisions"
    /\ i # j
    /\ \E h \in DOMAIN db.hash_index : SeqElems(db.hash_index[h]) = {i, j}
    /\ LET ci == _get_directory_config_for_path(db.file_info[i], config.dirs)
           cj == _get_directory_config_for_path(db.file_info[j], config.dirs)
       IN  /\ ci # None /\ ci[1].policy = "KEEP" /\ ci[1].priority = 1
           /\ cj # None /\ cj[1].policy = "DELETE" /\ cj[1].priority = 0

C2_Emits(i, j, action) ==
    /\ \E d \in Queued : d.file_index = i /\ d.action = action
    /\ \E d \in Queued :
        /\ d.file_index = j /\ d.action = "DELETE"
        /\ d.target = Some(db.file_info[i].path)

\* C2 as stated: in that case check_db emits KEEP for the first file and
\* DELETE with target the first file's path for the second.
C2_KeepAndDelete ==
    \A i, j \in DOMAIN db.file_info : C2_Case(i, j) => C2_Emits(i, j, "KEEP")

\* C2 amended: in that case check_db emits NOACTION for the first file, the
\* winner of the group, and DELETE with target the first file's path for the
\* second.
C2_NoActionAndDelete ==
    \A i, j \in DOMAIN db.file_info :
        C2_Case(i, j) =>
            /\ C2_Emits(i, j, "NOACTION")
            /\ \A d \in Queued : d.file_index = i => d.action = "NOACTION"
            /\ \A d \in Queued : d.file_index = j => d.action = "DELETE"

C2_Witness ==
    \E i, j \in DOMAIN db.file_info : C2_Case(i, j) /\ C2_Emits(i, j, "NOACTION")

\* d is beaten in its hash group: e has a heavier policy, or the same policy
\* and a higher priority, or these equal and an older modified time.
Beats(e, d) ==
    /\ e.file_info.file_hash = d.file_info.file_hash
    /\ \/ policy_priority(Cfg(e).policy) > policy_priority(Cfg(d).policy)
       \/ /\ Cfg(e).policy = Cfg(d).policy
          /\ \/ Cfg(e).priority > Cfg(d).priority
             \/ /\ Cfg(e).priority = Cfg(d).priority
                /\ e.file_info.modified < d.file_info.modified

\* C3: check_db never assigns TRASH or DELETE to a file whose resolved policy
\* is KEEP, PROMPT or HARDLINK; such a file is assigned KEEP unless it is the
\* winner of its group (at most one file of a group is, and a file that
\* another one beats is not).
C3_KeptPoliciesKept ==
    \A d \in Queued :
        (d.dircfg # None /\ Cfg(d).policy \in {"KEEP", "PROMPT", "HARDLINK"}) =>
            /\ d.action \notin {"TRASH", "DELETE"}
            /\ d.action \in {"KEEP", "NOACTION"}
            /\ (\E e \in Queued : Beats(e, d)) => d.action = "KEEP"
            /\ \A e \in Queued :
                (/\ e.file_index # d.file_index
                 /\ e.file_info.file_hash = d.file_info.file_hash
                 /\ Cfg(e).policy \in {"KEEP", "PROMPT", "HARDLINK"}
                 /\ e.action # "KEEP") => d.action = "KEEP"

\* A PROMPT or HARDLINK file that lost to a KEEP file of its group and was
\* given KEEP, beside a file of the group that is to be removed.
C3_Witness ==
    \E d, e, f \in Queued :
        /\ Cfg(d).policy \in {"PROMPT", "HARDLINK"} /\ d.action = "KEEP"
        /\ Cfg(e).policy = "KEEP" /\ Beats(e, d) /\ e.action = "NOACTION"
        /\ f.file_info.file_hash = d.file_info.file_hash
        /\ f.action \in {"TRASH", "DELETE"}

\* The files of the hash group h, and the config check_db resolves for file i.
Group(h) == SeqElems(db.hash_index[h])

CfgOf(i) == _get_directory_config_for_path(db.file_info[i], config.dirs)

\* C18 (the case): check_db has run; every file of group h lies under the
\* one directory config c, which has rename true and policy DELETE or TRASH,
\* and the modified times of the group are not all equal.
C18_Case(h, c) ==
    /\ deq.pc = "act_decisions"
    /\ c.rename /\ c.policy \in {"DELETE", "TRASH"}
    /\ \A i \in Group(h) : CfgOf(i) = Some(c)
    /\ \E i, j \in Group(h) : db.file_info[i].modified # db.file_info[j].modified

\* File w of group h is assigned RETIME to the newest modified time of the
\* group, every other file policy (DELETE or TRASH) with target w's path.
C18_Assigned(h, w, policy) ==
    /\ \A i \in Group(h) : \E d \in Queued : d.file_index = i
    /\ \A d \in Queued :
        /\ d.file_index = w =>
            /\ d.action = "RETIME"
            /\ d.time # None
            /\ \A i \in Group(h) : db.file_info[i].modified <= d.time[1]
            /\ \E i \in Group(h) : db.file_info[i].modified = d.time[1]
        /\ d.file_index \in Group(h) \ {w} =>
            /\ d.action = policy
            /\ d.target = Some(db.file_info[w].path)

\* C18: in that case the group raises no error, the winner is a file of the
\* oldest modified time and is assigned RETIME with time the newest modified
\* time of the group, and every other file is assigned the policy's action
\* with target the winner's path.
C18_RenameGroup ==
    \A h \in DOMAIN db.hash_index : \A c \in SeqElems(config.dirs) :
        C18_Case(h, c) =>
            /\ DecideGroup(db, config.dirs, db.hash_index[h]).exc = NoExc
            /\ deq.exc = NoExc =>
                \E w \in Group(h) :
                    /\ \A i \in Group(h) :
                          db.file_info[w].modified <= db.file_info[i].modified
                    /\ C18_Assigned(h, w, c.policy)

\* A group of three files under a rename config of policy DELETE, the oldest
\* one listed between the others, retimed to the newest time.
C18_Witness ==
    \E h \in DOMAIN db.hash_index : \E c \in SeqElems(config.dirs) :
        /\ C18_Case(h, c) /\ deq.exc = NoExc /\ c.policy = "DELETE"
        /\ Len(db.hash_index[h]) = 3
        /\ LET w == db.hash_index[h][2]
           IN  /\ \A i \in Group(h) \ {w} :
                     db.file_info[w].modified < db.file_info[i].modified
               /\ C18_Assigned(h, w, "DELETE")

\* The winner check_db picks when the index numbers of a group are listed in
\* the order idxs (0 when a file of the group has no config).
WinnerOf(idxs) ==
    LET decs == FirstPass(db, config.dirs, idxs)
    IN  IF \E k \in 1..Len(decs) : decs[k].dircfg = None THEN 0
        ELSE decs[Winner(decs)].file_index

\* What check_db yields for the group listed in the order idxs: the error
\* raised, or the action, target and time of every file.
ResultOf(idxs) ==
    LET r == DecideGroup(db, config.dirs, idxs)
    IN  [exc |-> r.exc,
         files |-> {<<r.decs[k].file_index, r.decs[k].action, r.decs[k].target, r.decs[k].time>> :
                    k \in 1..Len(r.decs)}]

\* C19: for a fixed hash group, configuration and winner, the result of
\* check_db for the group (action, target and time of every file, or the
\* error raised) is the same for every order in which the group's index
\* numbers are listed in the hash index.
C19_OrderIndependent ==
    deq.pc = "act_decisions" =>
        \A h \in DOMAIN db.hash_index : \A idxs \in Orders(Group(h)) :
            WinnerOf(idxs) = WinnerOf(db.hash_index[h]) =>
                ResultOf(idxs) = ResultOf(db.hash_index[h])

\* C20: a file whose directory policy is DISCARD is assigned TRASH, and a
\* file whose directory policy is ERASE is assigned DELETE, whether or not
\* its hash group contains any other file.
C20_DiscardEraseAlways ==
    \A d \in Queued :
        /\ Cfg(d).policy = "DISCARD" => d.action = "TRASH"
        /\ Cfg(d).policy = "ERASE" => d.action = "DELETE"

\* Every decision of decs has a directory config.
AllConfigured(decs) == \A k \in 1..Len(decs) : decs[k].dircfg # None

\* The decision at position w is of a file of the maximum policy weight
\* among decs; among those, of the maximal priority; among those, of the
\* minimal modified time.
IsBest(decs, w) ==
    \A j \in 1..Len(decs) :
        \/ policy_priority(Cfg(decs[j]).policy) < policy_priority(Cfg(decs[w]).policy)
        \/ /\ Cfg(decs[j]).policy = Cfg(decs[w]).policy
           /\ \/ Cfg(decs[j]).priority < Cfg(decs[w]).priority
              \/ /\ Cfg(decs[j]).priority = Cfg(decs[w]).priority
                 /\ decs[w].file_info.modified <= decs[j].file_info.modified

\* C25: in check_db the winner of a hash group is a file whose directory
\* policy has the maximum weight in the group; among those, one whose config
\* priority is maximal; among those, one whose modified time is minimal.
C25_WinnerIsBest ==
    deq.pc = "act_decisions" =>
        \A h \in DOMAIN db.hash_index :
            \A decs \in {FirstPass(db, config.dirs, db.hash_index[h])} :
                AllConfigured(decs) => \A w \in {Winner(decs)} : IsBest(decs, w)

\* check_db has run on a group of three files in which the winner is listed
\* last, a file of a lighter policy first, and a newer file of the winner's
\* policy and priority second.
C25_Witness ==
    /\ deq.pc = "act_decisions"
    /\ \E h \in DOMAIN db.hash_index :
        \E decs \in {FirstPass(db, config.dirs, db.hash_index[h])} :
            /\ Len(decs) = 3 /\ AllConfigured(decs)
            /\ Winner(decs) = 3 /\ IsBest(decs, 3)
            /\ policy_priority(Cfg(decs[1]).policy) < policy_priority(Cfg(decs[3]).policy)
            /\ Cfg(decs[2]) = Cfg(decs[3])
            /\ decs[2].file_info.modified > decs[3].file_info.modified

\* The files of group h that have a directory config, in the group's order.
Configured(h) == SelectSeq(db.hash_index[h], LAMBDA j : CfgOf(j) # None)

\* C26: when a hash group contains a file for which no directory config
\* matches, check_db completes without raising, enqueues NOACTION for that
\* file, and decides the other files of the group exactly as if that file
\* were not in the group.
C26_UnconfiguredKept ==
    deq.pc = "act_decisions" =>
        \A h \in DOMAIN db.hash_index : \A i \in Group(h) :
            CfgOf(i) = None =>
                /\ deq.exc = NoExc
                /\ \E d \in Queued : d.file_index = i /\ d.action = "NOACTION"
                /\ Configured(h) # <<>> =>
                     {f \in ResultOf(db.hash_index[h]).files : CfgOf(f[1]) # None}
                         = ResultOf(Configured(h)).files

\* The decisions check_db has put on the queue for the files of group h.
DecidedIn(h) == {d \in Queued : d.file_index \in Group(h)}

Removes(d) == d.action \in {"TRASH", "DELETE"}

\* C27: in every hash group in which no file's policy is DISCARD or ERASE,
\* check_db assigns neither TRASH nor DELETE to at least one file; and every
\* TRASH or DELETE decision that carries a target names the path of a file
\* of the same group that is itself assigned neither TRASH nor DELETE.
C27_OneFileStays ==
    deq.pc = "act_decisions" =>
        \A h \in DOMAIN db.hash_index :
            DecidedIn(h) # {} =>
                /\ (\A d \in DecidedIn(h) : Cfg(d).policy \notin {"DISCARD", "ERASE"})
                       => \E d \in DecidedIn(h) : ~Removes(d)
                /\ \A d \in DecidedIn(h) :
                       Removes(d) /\ d.target # None =>
                           \E e \in DecidedIn(h) :
                               e.file_info.path = d.target[1] /\ ~Removes(e)

\* check_db has decided a group of three files without a DISCARD or ERASE
\* policy: two files are assigned TRASH or DELETE with the third, which is
\* assigned neither, as their target.
C27_Witness ==
    /\ deq.pc = "act_decisions" /\ deq.exc = NoExc
    /\ \E h \in DOMAIN db.hash_index :
        /\ \A d \in DecidedIn(h) : Cfg(d).policy \notin {"DISCARD", "ERASE"}
        /\ \E d, c, e \in DecidedIn(h) :
            /\ d # c /\ Removes(d) /\ Removes(c) /\ ~Removes(e)
            /\ d.target = Some(e.file_info.path) /\ c.target = d.target

\* ----------------------------------------------------- claims on update_db

\* The worker t holds a file whose path is absent from the index while the
\* record i has its (device, inode), size and modified time under another
\* path, and the content check matches: the hash for a small file, the
\* prefix for a large one.
C4_Case(t, i) ==
    /\ scan.th[t].pc = "submit"
    /\ scan.th[t].inc.path \notin DOMAIN db.path_index
    /\ db.file_info[i].path # scan.th[t].inc.path
    /\ db.file_info[i].device = scan.th[t].inc.device
    /\ db.file_info[i].inode = scan.th[t].inc.inode
    /\ db.file_info[i].size = scan.th[t].inc.size
    /\ db.file_info[i].modified = scan.th[t].inc.modified
    /\ read_16b(scan.disk, scan.th[t].inc.path).exc = NoExc
    /\ IF config.small_file_size = None
          \/ scan.th[t].inc.size <= config.small_file_size[1]
       THEN hash_file(scan.disk, scan.th[t].inc.path).val = db.file_info[i].file_hash
       ELSE read_16b(scan.disk, scan.th[t].inc.path).val = db.file_info[i].first_16b

\* C4: when the scanner meets a path absent from the index while a record
\* with the same (device, inode), size and modified time exists under
\* another path and the content check matches, the scan changes that
\* record's path and adds no record: lookup by the new path returns the
\* record with its previous hash, lookup by the old path returns nothing,
\* and the number of records is unchanged.
C4_RenameUpdatesPath ==
    [][\A t \in Threads : \A i \in DOMAIN db.file_info :
        (C4_Case(t, i) /\ scan'.th[t] # scan.th[t]) =>
            /\ DOMAIN db'.file_info = DOMAIN db.file_info
            /\ get_item_path(db', scan.th[t].inc.path) =
                    << <<i, [db.file_info[i] EXCEPT !.path = scan.th[t].inc.path]>> >>
            /\ get_item_path(db', db.file_info[i].path) = <<>>]_vars

\* The record f of index i is returned by all four lookups of d.
Found(d, i, f) ==
    /\ get_item_path(d, f.path) = << <<i, f>> >>
    /\ get_item_dvin(d, <<f.device, f.inode>>) = << <<i, f>> >>
    /\ f \in get_items_hash(d, f.file_hash)
    /\ f \in get_items_f16b(d, f.first_16b)

\* The record f of index i is returned by none of the lookups of d.
Gone(d, i, f) ==
    /\ get_item_path(d, f.path) = <<>>
    /\ get_item_dvin(d, <<f.device, f.inode>>) = <<>>
    /\ f \notin get_items_hash(d, f.file_hash)
    /\ f \notin get_items_f16b(d, f.first_16b)

\* C5: after _check_stale_files the paths of the index are those that were
\* in the index before the sweep and are in the visited set; each removed
\* record is returned by no lookup (path, device/inode, hash, first_16b) and
\* each retained record by all four.
C5_SweepRemovesStale ==
    [][(scan.pc = "workers" /\ scan'.pc = "swept") =>
        /\ DOMAIN db'.path_index = DOMAIN db.path_index \cap scan.checked
        /\ \A i \in DOMAIN db.file_info :
            IF db.file_info[i].path \in scan.checked
            THEN Found(db', i, db.file_info[i])
            ELSE Gone(db', i, db.file_info[i])]_vars

AllJoined == \A t \in Threads : scan.th[t].pc \in {"done", "dead"}

\* The paths of the files of the scanned directories that lstat can read,
\* that match the global pattern and that have a directory config.
Eligible ==
    {f.path : f \in {g \in SeqElems(iterate_files(config.dirs, scan.disk)) :
        /\ read_file_info(g).exc = NoExc
        /\ Match(config.pattern, read_file_info(g).val)
        /\ _get_directory_config_for_path(read_file_info(g).val, config.dirs) # None}}

\* C6: the stale sweep starts only after every worker has terminated, and
\* then the visited set holds every enumerated file that matches the global
\* pattern and has a directory config; hence the sweep never removes the
\* record of a file that is still present in a scanned directory.
C6_VisitedComplete ==
    /\ scan.pc = "swept" => AllJoined
    /\ AllJoined => Eligible \subseteq scan.checked
    /\ scan.pc = "swept" => Eligible \cap scan.before \subseteq DOMAIN db.path_index

\* C7: a PermissionError or FileNotFoundError raised while handling one file
\* (by the stat of the enumeration, the prefix read or the hashing) skips
\* that file only: it ends no worker, and unless a worker was ended by
\* another exception every other file is processed.
C7_AccessErrorSkipsOneFile ==
    /\ \A t \in Threads : scan.th[t].exc \notin Logged
    /\ (AllJoined /\ \A t \in Threads : scan.th[t].pc = "done") =>
            Eligible \subseteq scan.checked

\* ------------------------------------------------- claims on act_decisions

\* C8: a failure of the filesystem call of one decision (utime, send2trash,
\* unlink) is logged and skipped: the decisions queued after it are still
\* processed (the loop is left only on an empty queue), the record of the
\* file stays in the index and its size is not added to the tally.
C8_FailureSkipsOneDecision ==
    [][/\ (exe'.calls # exe.calls /\ ~exe'.op.ok) =>
            /\ db' = db
            /\ exe'.saved_space = exe.saved_space
            /\ exe'.pc = "loop"
       /\ exe'.pc = "returned" => deq'.queue = <<>>]_vars

\* The sizes of the TRASH and DELETE decisions of a queue, summed.
RECURSIVE RemovedSize(_)
RemovedSize(queue) ==
    IF queue = <<>> THEN 0
    ELSE RemovedSize(Tail(queue))
         + (IF Head(queue).action \in {"TRASH", "DELETE"}
            THEN Head(queue).file_info.size ELSE 0)

\* C9: with dry_run true act_decisions makes no filesystem call and leaves
\* the index unchanged whatever the queue holds, and it returns the sum of
\* the sizes of the queued TRASH and DELETE decisions.
C9_DryRunOnlyTallies ==
    config.dry_run =>
        /\ exe.calls = 0
        /\ \A p \in DOMAIN exe.disk :
            exe.disk[p].present /\ exe.disk[p].modified = exe.db0.file_info[exe.db0.path_index[p]].modified
        /\ db = exe.db0
        /\ exe.pc = "returned" =>
            /\ deq.queue = <<>>
            /\ exe.returned = RemovedSize(exe.queued)

\* A dry run has returned the sizes of a TRASH and a DELETE decision on two
\* files, both still on disk and in the index.
C9_Witness ==
    /\ config.dry_run /\ exe.pc = "returned"
    /\ \E i, j \in 1..Len(exe.queued) :
        /\ exe.queued[i].action = "TRASH" /\ exe.queued[j].action = "DELETE"
        /\ exe.queued[i].file_index # exe.queued[j].file_index
        /\ exe.returned = exe.queued[i].file_info.size + exe.queued[j].file_info.size
        /\ exe.returned > 0
    /\ DOMAIN db.file_info = {1, 2}

\* C28: during one scan with any number of worker threads, each distinct path
\* is fingerprinted and submitted to the index at most once, even when the
\* path is enumerated several times because configured directory trees
\* overlap.
C28_SubmittedOnce ==
    scan.pc \in {"workers", "swept"} => \A p \in DOMAIN scan.sent : scan.sent[p] <= 1

\* Worker t is about to classify a file whose path is in the index under
\* index i, the record of the same (device, inode), of another size or
\* modified time, and whose content can be read.
C29_Case(t, i) ==
    /\ scan.th[t].pc = "submit"
    /\ scan.th[t].inc.path \in DOMAIN db.path_index
    /\ db.path_index[scan.th[t].inc.path] = i
    /\ db.file_info[i].device = scan.th[t].inc.device
    /\ db.file_info[i].inode = scan.th[t].inc.inode
    /\ \/ db.file_info[i].size # scan.th[t].inc.size
       \/ db.file_info[i].modified # scan.th[t].inc.modified
    /\ read_16b(scan.disk, scan.th[t].inc.path).exc = NoExc
    /\ hash_file(scan.disk, scan.th[t].inc.path).exc = NoExc

\* C29: when the scanner finds a file whose path and (device, inode) both
\* resolve to the same index record but whose size or modified time differs
\* from that record, the scan updates the record to the file's current size
\* and times and to freshly computed fingerprints.
C29_ChangedFileUpdated ==
    [][\A t \in Threads : \A i \in DOMAIN db.file_info :
        (C29_Case(t, i) /\ scan'.th[t] # scan.th[t]) =>
            /\ i \in DOMAIN db'.file_info
            /\ db'.file_info[i] =
                  complete(scan.th[t].inc,
                           hash_file(scan.disk, scan.th[t].inc.path).val,
                           read_16b(scan.disk, scan.th[t].inc.path).val)]_vars

\* Worker t is about to classify a file whose path is in the index under
\* index i while no record of the index has the file's (device, inode), and
\* whose content can be read.
C30_Case(t, i) ==
    /\ scan.th[t].pc = "submit"
    /\ scan.th[t].inc.path \in DOMAIN db.path_index
    /\ db.path_index[scan.th[t].inc.path] = i
    /\ \A j \in DOMAIN db.file_info :
          <<db.file_info[j].device, db.file_info[j].inode>>
              # <<scan.th[t].inc.device, scan.th[t].inc.inode>>
    /\ read_16b(scan.disk, scan.th[t].inc.path).exc = NoExc
    /\ hash_file(scan.disk, scan.th[t].inc.path).exc = NoExc

\* C30: when the scanner finds a file whose path is in the index but whose
\* (device, inode) is not (the file was replaced by another file), the file
\* is treated as new: there is then exactly one record for that path, holding
\* the new file's metadata and fingerprints, and the worker goes on with the
\* next file.
C30_ReplacedFileIsNew ==
    [][\A t \in Threads : \A i \in DOMAIN db.file_info :
        (C30_Case(t, i) /\ scan'.th[t] # scan.th[t]) =>
            /\ scan'.th[t] = Idle
            /\ Cardinality({j \in DOMAIN db'.file_info :
                              db'.file_info[j].path = scan.th[t].inc.path}) = 1
            /\ \E j \in DOMAIN db'.file_info :
                  db'.file_info[j] =
                      complete(scan.th[t].inc,
                               hash_file(scan.disk, scan.th[t].inc.path).val,
                               read_16b(scan.disk, scan.th[t].inc.path).val)]_vars

\* Before the sweep: record i is indexed under a path that is no longer on
\* disk, and the scanner has found the file f of the same (device, inode) at
\* another path, of another size or modified time.
C31_Case(i, f) ==
    /\ \A g \in SeqElems(scan.disk) : g.path # db.file_info[i].path
    /\ f.path \in scan.checked
    /\ f.path # db.file_info[i].path
    /\ f.err = "none"
    /\ <<f.device, f.inode>> = <<db.file_info[i].device, db.file_info[i].inode>>
    /\ f.size # db.file_info[i].size \/ f.modified # db.file_info[i].modified

\* C31: when the scanner finds a file at a new path whose (device, inode) is
\* indexed under an old path that is no longer on disk, and whose size or
\* modified time differs from that record, then after the scan and the stale
\* sweep the index holds exactly one record with that (device, inode), at
\* the new path, and get_item by device_inode returns it.
C31_MovedAndChanged ==
    [][(scan.pc = "workers" /\ scan'.pc = "swept") =>
        \A i \in DOMAIN db.file_info : \A f \in SeqElems(scan.disk) :
            C31_Case(i, f) =>
                /\ \E j \in DOMAIN db'.file_info :
                    /\ db'.file_info[j].path = f.path
                    /\ get_item_dvin(db', <<f.device, f.inode>>) = << <<j, db'.file_info[j]>> >>
                /\ Cardinality({j \in DOMAIN db'.file_info :
                        <<db'.file_info[j].device, db'.file_info[j].inode>>
                            = <<f.device, f.inode>>}) = 1]_vars

\* ------------------------------------------------- claims on the directories

\* The number of directory levels between the directory and the file.
LevelsBelow(path, dir) == Len(path) - 1 - Len(dir)

\* C36: for a directory configured with an integer subdirs value N, the scan
\* enumerates only files that lie at most N directory levels below the
\* configured path; with subdirs false it enumerates only files directly
\* inside the path.
C36_DepthCap ==
    tree.pc \in {"choose", "done"} =>
        \A k \in 1..Len(tree.yaml) : \A i \in 1..Len(tree.listed[k]) :
            /\ tree.yaml[k].subdirs.tag = "int" =>
                LevelsBelow(tree.listed[k][i], tree.yaml[k].path) <= tree.yaml[k].subdirs.n
            /\ tree.yaml[k].subdirs = YBool(FALSE) =>
                LevelsBelow(tree.listed[k][i], tree.yaml[k].path) = 0

\* The configs that are an ancestor of the chosen file with an absent or
\* matching pattern.
Candidates ==
    {c \in SeqElems(tree.dirs) :
        /\ IsRelativeTo(tree.file[1].path, c.path)
        /\ (c.pattern = None \/ Match(c.pattern[1], tree.file[1]))}

\* The candidates with a pattern when some candidate has one, else all.
Patterned ==
    IF \E c \in Candidates : c.pattern # None
    THEN {c \in Candidates : c.pattern # None} ELSE Candidates

C33_DeepestConfig ==
    (tree.pc = "done" /\ Cardinality(Candidates) > 1) =>
        /\ tree.chosen[1] # None
        /\ \A c \in Candidates : Len(c.path) <= Len(tree.chosen[1][1].path)

\* ------------------------------------------------------ claims on the locks

\* No thread is about to acquire a lock it already holds.
NoSelfAcquire ==
    /\ \A t \in DOMAIN locks.th :
        ~locks.th[t].in /\ locks.th[t].pc \notin {"done", "dead"}
            => locks.holder[LockOf(locks.th[t].pc)] # Some(t)
    /\ ~locks.main.in => locks.holder.db # Some(MainThread)

\* C34 as stated: every read or write of the index tables by the scanner
\* workers, the stale sweep, the decision engine and the executor happens
\* while the StatDB lock is held, and no thread acquires the lock while it
\* already holds it.
C34_AllUnderLock ==
    /\ \A a \in locks.acc : a.locked
    /\ NoSelfAcquire

\* C34, amended: every access of a worker, and every access made through a
\* method of the StatDB, happens under the lock; the only accesses without
\* the lock are the sweep's read of path_index and check_db's read of
\* hash_index, both made by the main thread after every worker has ended;
\* no thread acquires a lock it already holds.
C34_NoRace ==
    /\ \A a \in locks.acc :
        /\ a.by = "worker" => a.locked
        /\ ~a.locked => /\ a.alone
                        /\ <<a.by, a.table>> \in {<<"sweep", "path_index">>,
                                                  <<"check_db", "hash_index">>}
    /\ NoSelfAcquire

\* C34 witness: a worker has written the tables in add_item under the lock,
\* the sweep has read path_index and check_db hash_index without it.
C34_Witness ==
    /\ \E a \in locks.acc : a.by = "worker" /\ a.table = "hash_index" /\ a.locked
    /\ \E a \in locks.acc : a.by = "sweep" /\ a.table = "path_index" /\ ~a.locked
    /\ \E a \in locks.acc : a.by = "check_db" /\ a.table = "hash_index" /\ ~a.locked
    /\ \E a \in locks.acc : a.by = "act_decisions" /\ a.locked

Waiting(t) ==
    /\ t \in DOMAIN locks.th
    /\ locks.th[t].pc \notin {"done", "dead"}
    /\ ~locks.th[t].in
    /\ locks.holder[LockOf(locks.th[t].pc)] # None

\* C40: for a finite directory tree _add_new_files always returns: every
\* worker eventually ends, also when some worker raises, and no worker
\* waits forever for the index lock, the visited-set lock or the iterator
\* lock.
C40_WorkersTerminate ==
    /\ <>(locks.main.pc # "join")
    /\ <>[]Ended(locks.th)
    /\ \A t \in 1..MaxThreads : []<>~Waiting(t)

\* C40 witness: _add_new_files has returned after one worker had died of
\* the exception of add_item, raised inside the lock of the StatDB, and
\* another had reached the end of the iterator.
C40_Witness ==
    /\ locks.main.pc # "join"
    /\ \E t, u \in DOMAIN locks.th :
        /\ locks.th[t].pc = "dead" /\ locks.th[t].exc = BagSetItemExc
        /\ locks.th[u].pc = "done"

\* ------------------------------------------------ claims on the executor

\* The sizes of the first n files of ActKnown that are gone from the disk:
\* those a send2trash or unlink has succeeded on.
RECURSIVE GoneSize(_)
GoneSize(n) ==
    IF n = 0 THEN 0
    ELSE GoneSize(n - 1)
         + (IF exe.disk[ActKnown[n].path].present THEN 0 ELSE ActKnown[n].size)

\* C35: with dry_run false, act_decisions returns the sum of the sizes of
\* exactly those TRASH and DELETE decisions whose filesystem operation
\* succeeded; when it returns the index holds no record of those files and
\* still holds the record of every other file.
C35_RemovedTallied ==
    (exe.pc = "returned" /\ ~config.dry_run) =>
        /\ exe.returned = GoneSize(Len(ActKnown))
        /\ \A i \in 1..Len(ActKnown) :
            IF exe.disk[ActKnown[i].path].present
            THEN /\ get_item_index(db, i) = << <<i, ActKnown[i]>> >>
                 /\ get_item_path(db, ActKnown[i].path) = << <<i, ActKnown[i]>> >>
            ELSE /\ get_item_index(db, i) = <<>>
                 /\ Gone(db, i, ActKnown[i])

\* The positions of the queue that hold a decision on the record of index i.
DecisionsOn(i) == {k \in 1..Len(deq.queue) : deq.queue[k].file_index = i}

\* C37: check_db enqueues exactly one decision for every record in the
\* index, and no enqueued decision has action UNDEFINED or LINK.
C37_OneDecisionEach ==
    deq.pc = "act_decisions" =>
        /\ \A i \in DOMAIN db.file_info : Cardinality(DecisionsOn(i)) = 1
        /\ \A d \in Queued : d.action \notin {"UNDEFINED", "LINK"}

\* ------------------------------------------- claims on the failed calls

\* The exceptions by which the StatDB rejects a call.
Rejections == {"ItemExistsError", "ItemNotFoundError", "InvalidItemError"}

\* C38: an add_item, update_item or pop_item call that raises
\* ItemExistsError, ItemNotFoundError or InvalidItemError leaves all five
\* index tables and the dirty flag exactly as they were before the call.
C38_RejectedCallChangesNothing ==
    [][(/\ last' # last
        /\ last'.op \in {"add_item", "update_item", "pop_item_path"}
        /\ last'.exc \in Rejections)
            => (Tables(db') = Tables(db) /\ db'.dirty = db.dirty)]_vars

====
